---- MODULE Spec2Model ----
(***************************************************************************)
(* Model of the StyleAgent curation engine (src/scripts): the Wardrobe     *)
(* Architect's slot-by-slot catalogue matching under a shared budget, the  *)
(* feedback classifier and its state mutations, the orchestrator that      *)
(* chains them, and the GUI host that runs them on worker threads.         *)
(***************************************************************************)
EXTENDS Integers, Sequences, FiniteSets, TLC

\* ------------------------------------------------------------------------
\* Bounds of the exploration
\* ------------------------------------------------------------------------
MaxIteration == 2

\* ------------------------------------------------------------------------
\* Small helpers over sequences
\* ------------------------------------------------------------------------
SeqToSet(s) == {s[i] : i \in 1..Len(s)}

RECURSIVE FilterSeq(_, _)
\* [c for c in s if c \in keep]
FilterSeq(s, keep) ==
    IF s = <<>> THEN <<>>
    ELSE IF Head(s) \in keep THEN <<Head(s)>> \o FilterSeq(Tail(s), keep)
         ELSE FilterSeq(Tail(s), keep)

RECURSIVE FilterOut(_, _)
\* [c for c in s if c \notin drop]
FilterOut(s, drop) ==
    IF s = <<>> THEN <<>>
    ELSE IF Head(s) \in drop THEN FilterOut(Tail(s), drop)
         ELSE <<Head(s)>> \o FilterOut(Tail(s), drop)

Take(s, n) == SubSeq(s, 1, IF Len(s) < n THEN Len(s) ELSE n)

Drop(s, n) == IF Len(s) <= n THEN <<>> ELSE SubSeq(s, n + 1, Len(s))

RECURSIVE SumPrices(_)
SumPrices(items) ==
    IF items = <<>> THEN 0 ELSE Head(items).price + SumPrices(Tail(items))

\* ------------------------------------------------------------------------
\* The catalogue (table current_inventory)
\* ------------------------------------------------------------------------
Row(sku, category, price, color_family, fabric, tags, gender, stock, vibe) ==
    [sku |-> sku, category |-> category, price |-> price,
     color_family |-> color_family, fabric |-> fabric,
     occasion_tags |-> tags, gender |-> gender,
     stock_status |-> stock, vibe |-> vibe]

NoRow == Row("", "", 0, "", "", {}, "", "", "")

TOP1 == Row("SKU-TOP-1", "Top", 900, "Red", "Silk", {"wedding", "sangeet"}, "female", "in_stock", "Modern")
FUL1 == Row("SKU-FUL-1", "Full", 600, "Ivory", "Linen", {"wedding"}, "female", "in_stock", "Ethnic")
FUL2 == Row("SKU-FUL-2", "Full", 500, "Teal", "Cotton", {"wedding"}, "unisex", "in_stock", "Modern")
LAY1 == Row("SKU-LAY-1", "Layer", 300, "Gold", "Velvet", {"wedding"}, "female", "in_stock", "Ethnic")
JEW1 == Row("SKU-JEW-1", "Jewelry", 400, "Gold", "Kundan", {"wedding"}, "female", "in_stock", "Ethnic")
JEW2 == Row("SKU-JEW-2", "Jewelry", 450, "Pearl White", "Silver", {"wedding"}, "unisex", "in_stock", "Modern")
JEW3 == Row("SKU-JEW-3", "Jewelry", 350, "Rose Gold", "Rose Gold", {"wedding"}, "female", "in_stock", "Modern")
FTW1 == Row("SKU-FTW-1", "Footwear", 250, "Tan", "Leather", {"wedding", "casual"}, "female", "in_stock", "Modern")
FTW2 == Row("SKU-FTW-2", "Footwear", 350, "Gold", "Leather", {"wedding"}, "female", "out_of_stock", "Ethnic")
ACC1 == Row("SKU-ACC-1", "Accessory", 150, "Cobalt Blue", "Georgette", {"wedding"}, "female", "in_stock", "Modern")
ACC2 == Row("SKU-ACC-2", "Accessory", 100, "Ivory", "Silk", {"wedding"}, "female", "in_stock", "Ethnic")
ACC3 == Row("SKU-ACC-3", "Accessory", 120, "Red", "Silk", {"casual"}, "female", "in_stock", "Modern")
FTW3 == Row("SKU-FTW-3", "Footwear", 200, "Black", "Leather", {"wedding"}, "male", "in_stock", "Modern")

MainRows == {TOP1, FUL1, FUL2}

OtherRows == {LAY1, JEW1, JEW2, JEW3, FTW1, FTW2, FTW3, ACC1, ACC2, ACC3}

\* the catalogues a session may run against: empty, with and without
\* main garments, with a single main garment, accents only
Catalogs ==
    { {}, MainRows \cup OtherRows, OtherRows, {FUL1} \cup OtherRows,
      {TOP1, JEW1, ACC2}, {FUL2, FTW1, ACC1}, {JEW1, JEW2, ACC1, ACC2} }

\* ------------------------------------------------------------------------
\* Inputs handed to the engine by its collaborators
\* ------------------------------------------------------------------------
TrendBrief(present, colors, fabrics, silhouettes) ==
    [present |-> present, trending_colors |-> colors,
     key_fabrics |-> fabrics, must_have_silhouette |-> silhouettes]

NoTrendBrief == TrendBrief(FALSE, <<>>, <<>>, <<>>)

TrendInputs ==
    { NoTrendBrief,
      TrendBrief(TRUE, <<>>, <<>>, <<>>),
      TrendBrief(TRUE, <<"Cobalt Blue", "Red", "Gold">>, <<"Silk", "Velvet">>, <<"Draped">>),
      TrendBrief(TRUE, <<"Teal", "Peach">>, <<"Cotton">>, <<"Flared">>),
      TrendBrief(TRUE, <<"Red", "Cobalt Blue", "Emerald Green", "Gold", "Ivory">>,
                       <<"Silk", "Chiffon", "Linen", "Velvet">>,
                       <<"Draped", "Flared", "A-Line">>) }

UserStyleProfile(present, colors, skin_tone) ==
    [present |-> present, dominant_colors |-> colors, skin_tone |-> skin_tone]

NoProfile == UserStyleProfile(FALSE, <<>>, "")

ProfileInputs ==
    { NoProfile,
      UserStyleProfile(TRUE, <<"Black", "White", "Navy Blue">>, "neutral"),
      UserStyleProfile(TRUE, <<"Ivory", "Black">>, "warm"),
      UserStyleProfile(TRUE, <<"Teal", "Gold">>, "cool") }

BudgetInputs == {0, 300, 1000}

VibeInputs == {"Any", "Modern"}

OccasionInputs == {"wedding"}

GenderInputs == {"female"}

\* OCCASION_RULES[occasion]["colors"], used when no trend brief is present
GuidanceColors(occasion) ==
    IF occasion = "wedding"
    THEN <<"Maroon", "Emerald Green", "Royal Blue", "Gold", "Deep Wine", "Royal Purple", "Red">>
    ELSE <<"Black", "Deep Wine", "Navy Blue", "Emerald Green">>

NEUTRALS == {"Black", "White", "Ivory", "Beige", "Neutral Grey", "Navy Blue", "Charcoal"}

DefaultBudget == 50000

\* ------------------------------------------------------------------------
\* StyleState and its parts
\* ------------------------------------------------------------------------
FinalRecommendation(present, items, confidence, trend, availability) ==
    [present |-> present, outfit_items |-> items,
     confidence_score |-> confidence, trend_alignment_score |-> trend,
     inventory_availability_status |-> availability]

NoRecommendation == FinalRecommendation(FALSE, <<>>, 0, 0, "available")

StyleState(trend, profile, occasion, gender, budgetIn, vibe) ==
    [trend_brief |-> trend, user_style_profile |-> profile,
     inventory_match |-> <<>>, final_recommendation |-> NoRecommendation,
     occasion |-> occasion, gender |-> gender, budget |-> budgetIn,
     preferred_clothing_type |-> "Any", preferred_accessory_type |-> "Any",
     preferred_jewelry_type |-> "Any", preferred_vibe |-> vibe,
     current_step |-> "idle", feedback_history |-> <<>>,
     rejected_skus |-> <<>>, iteration |-> 0]

OutfitItem(row, role) ==
    [sku |-> row.sku, category |-> row.category, price |-> row.price,
     color |-> row.color_family, fabric |-> row.fabric, role |-> role]

VARIABLES
    catalog,          \* rows of current_inventory (read only)
    vibe_column,      \* whether the table has the column `vibe` the strict query names
    state,            \* the StyleState handed between the agents
    pc,               \* position of the call in flight
    call,             \* the orchestrator operation in flight or last finished
    budget,           \* curate local: state.budget or 50000
    trending_colors,  \* curate local
    user_colors,      \* curate local
    accent_colors,    \* curate local
    remaining,        \* curate local: budget left for the next slot
    main_piece,       \* curate local: result of _find_main_piece
    match_tier,       \* return site of _find_main_piece (0 = not returned)
    outfit_items,     \* curate local
    primary_colors,   \* curate local
    vibe_hits,        \* curate local
    total_items,      \* curate local
    attempted,        \* slots whose catalogue query has been issued in this run
    raised,           \* exception that left the call in flight, "" if none
    feedback_text,    \* argument of the last FeedbackHandler.process call
    action,           \* process local: the action the classifier chose
    state_before,     \* the StyleState as it was when the last call was made
    app_state,        \* GUI: the StyleState object self.app_state refers to
    heap,             \* GUI: the StyleState objects, by identity
    workers,          \* GUI: the worker threads
    run_btn,          \* GUI: state of the Curate button
    lookbook,         \* GUI: the lookbook with its feedback buttons is displayed
    after_queue,      \* GUI: callbacks the workers posted with self.after(0, ...)
    fn,               \* the library function last called on its own, "" if none
    args,             \* its arguments
    result            \* what it returned

engineVars ==
    <<catalog, vibe_column, state, pc, call, budget, trending_colors,
      user_colors, accent_colors, remaining, main_piece, match_tier,
      outfit_items, primary_colors, vibe_hits, total_items, attempted,
      raised, feedback_text, action, state_before>>

guiVars == <<app_state, heap, workers, run_btn, lookbook, after_queue>>

fnVars == <<fn, args, result>>

vars == <<engineVars, guiVars, fnVars>>

\* ------------------------------------------------------------------------
\* Catalogue queries (WardrobeArchitectAgent._find_*)
\* ------------------------------------------------------------------------
\* occasion_tags LIKE '%occasion%' on the comma-separated tag text; no tag
\* of the catalogue is a substring of another, so this is tag membership
OccasionLike(tags, occasion) == occasion \in tags

\* (? = 'Any' OR name LIKE ?): the sessions leave the type preferences
\* at their StyleState default 'Any'
TypeLike(row, pref) == pref = "Any"

\* SQL LIKE '%metal%' (case-insensitive substring) over the catalogue's
\* fabric and colour texts
MetalLike(text, metal) ==
    \/ text = metal
    \/ metal = "Gold" /\ text \in {"Rose Gold", "Gold & Ruby", "Gold & Emerald"}

\* the WHERE clause without "sku NOT IN (rejected)"
BaseRowsAnySku(categories, occasion, gender, ceiling, rejected, pref) ==
    { r \in catalog :
        /\ r.category \in categories
        /\ OccasionLike(r.occasion_tags, occasion)
        /\ r.gender \in {gender, "unisex"}
        /\ r.price <= ceiling
        /\ r.stock_status = "in_stock"
        /\ TypeLike(r, pref) }

\* the WHERE clause without "price <= ?"
BaseRowsAnyPrice(categories, occasion, gender, ceiling, rejected, pref) ==
    { r \in catalog :
        /\ r.category \in categories
        /\ OccasionLike(r.occasion_tags, occasion)
        /\ r.gender \in {gender, "unisex"}
        /\ r.stock_status = "in_stock"
        /\ TypeLike(r, pref)
        /\ r.sku \notin SeqToSet(rejected) }

\* the WHERE clause every slot query shares
BaseRows(categories, occasion, gender, ceiling, rejected, pref) ==
    { r \in catalog :
        /\ r.category \in categories
        /\ OccasionLike(r.occasion_tags, occasion)
        /\ r.gender \in {gender, "unisex"}
        /\ r.price <= ceiling
        /\ r.stock_status = "in_stock"
        /\ TypeLike(r, pref)
        /\ r.sku \notin SeqToSet(rejected) }

\* ORDER BY price DESC LIMIT 5, rows[0]: a row of the highest price
TopRows(rows) == { r \in rows : \A q \in rows : q.price <= r.price }

\* the strict query names the column `vibe`; sqlite raises
\* OperationalError (no such column) when the table lacks it
VibeQueryRaises(vibe_pref) == vibe_pref /= "Any" /\ ~vibe_column

\* _execute_vibe_query reporting a vibe match for the fallback query too
ExecuteVibeQueryAlwaysMatched(rows, vibe_pref) ==
    LET strict == { r \in rows : r.vibe = vibe_pref }
    IN  IF vibe_pref /= "Any" /\ strict /= {}
        THEN [rows |-> strict, matched_vibe |-> TRUE]
        ELSE [rows |-> rows, matched_vibe |-> vibe_pref /= "Any"]

\* _execute_vibe_query: strict vibe match first, then any vibe
ExecuteVibeQuery(rows, vibe_pref) ==
    LET strict == { r \in rows : r.vibe = vibe_pref }
    IN  IF vibe_pref /= "Any" /\ strict /= {}
        THEN [rows |-> strict, matched_vibe |-> TRUE]
        ELSE [rows |-> rows, matched_vibe |-> FALSE]

Found(row, matched, tier) ==
    [found |-> TRUE, row |-> row, matched_vibe |-> matched, tier |-> tier]

NotFound == [found |-> FALSE, row |-> NoRow, matched_vibe |-> FALSE, tier |-> 0]

Outcomes(q, tier) ==
    { Found(r, q.matched_vibe, tier) : r \in TopRows(q.rows) }

\* _find_main_piece with the colour-unconstrained query only
FindMainPieceAnyColourOnly(occasion, gender, ceiling, trending, user, rejected, pref, vibe_pref) ==
    LET base  == BaseRows({"Top", "Full", "Bottom"}, occasion, gender, ceiling, rejected, pref)
        q_any == ExecuteVibeQuery(base, vibe_pref)
    IN  IF q_any.rows /= {} THEN Outcomes(q_any, 4) ELSE {NotFound}

\* _find_main_piece without the user-colour query
FindMainPieceNoUserTier(occasion, gender, ceiling, trending, user, rejected, pref, vibe_pref) ==
    LET base    == BaseRows({"Top", "Full", "Bottom"}, occasion, gender, ceiling, rejected, pref)
        q_trend == ExecuteVibeQuery({r \in base : r.color_family \in SeqToSet(trending)}, vibe_pref)
        q_any   == ExecuteVibeQuery(base, vibe_pref)
    IN  IF trending /= <<>> /\ q_trend.rows /= {}
        THEN Outcomes(q_trend, IF q_trend.matched_vibe THEN 1 ELSE 2)
        ELSE IF q_any.rows /= {}
        THEN Outcomes(q_any, 4)
        ELSE {NotFound}

\* _find_main_piece: trend colours, then user colours, then any colour.
\* tier names the return site: 1/2 trend colours with/without the vibe,
\* 3 user colours, 4 any colour
FindMainPiece(occasion, gender, ceiling, trending, user, rejected, pref, vibe_pref) ==
    LET base    == BaseRows({"Top", "Full", "Bottom"}, occasion, gender, ceiling, rejected, pref)
        q_trend == ExecuteVibeQuery({r \in base : r.color_family \in SeqToSet(trending)}, vibe_pref)
        q_user  == ExecuteVibeQuery({r \in base : r.color_family \in SeqToSet(user)}, vibe_pref)
        q_any   == ExecuteVibeQuery(base, vibe_pref)
    IN  IF trending /= <<>> /\ q_trend.rows /= {}
        THEN Outcomes(q_trend, IF q_trend.matched_vibe THEN 1 ELSE 2)
        ELSE IF user /= <<>> /\ q_user.rows /= {}
        THEN Outcomes(q_user, 3)
        ELSE IF q_any.rows /= {}
        THEN Outcomes(q_any, 4)
        ELSE {NotFound}

\* _find_layer: colours_hex is [] whenever the call is reached (see
\* LayerStep), so only the fallback query runs
FindLayer(occasion, gender, ceiling, rejected, vibe_pref) ==
    LET q == ExecuteVibeQuery(BaseRows({"Layer"}, occasion, gender, ceiling, rejected, "Any"), vibe_pref)
    IN  IF q.rows /= {} THEN Outcomes(q, 0) ELSE {NotFound}

\* _find_jewelry: the recommended metal first, then any jewellery
FindJewelry(occasion, gender, metal, ceiling, rejected, pref, vibe_pref) ==
    LET base    == BaseRows({"Jewelry"}, occasion, gender, ceiling, rejected, pref)
        q_metal == ExecuteVibeQuery({r \in base : MetalLike(r.fabric, metal) \/ MetalLike(r.color_family, metal)}, vibe_pref)
        q_any   == ExecuteVibeQuery(base, vibe_pref)
    IN  IF q_metal.rows /= {} THEN Outcomes(q_metal, 0)
        ELSE IF q_any.rows /= {} THEN Outcomes(q_any, 0)
        ELSE {NotFound}

\* _find_footwear
FindFootwear(occasion, gender, ceiling, rejected, vibe_pref) ==
    LET q == ExecuteVibeQuery(BaseRows({"Footwear"}, occasion, gender, ceiling, rejected, "Any"), vibe_pref)
    IN  IF q.rows /= {} THEN Outcomes(q, 0) ELSE {NotFound}

\* _find_accessory: the accent colours first, then any accessory
FindAccessory(occasion, gender, ceiling, accents, rejected, pref, vibe_pref) ==
    LET base     == BaseRows({"Accessory"}, occasion, gender, ceiling, rejected, pref)
        q_accent == ExecuteVibeQuery({r \in base : r.color_family \in SeqToSet(accents)}, vibe_pref)
        q_any    == ExecuteVibeQuery(base, vibe_pref)
    IN  IF accents /= <<>> /\ q_accent.rows /= {} THEN Outcomes(q_accent, 0)
        ELSE IF q_any.rows /= {} THEN Outcomes(q_any, 0)
        ELSE {NotFound}

\* str.lower() on the names that reach get_jewelry_metal
LowerName(name) ==
    CASE name = "Wedding" -> "wedding"
      [] name = "DIWALI"  -> "diwali"
      [] name = "Cool"    -> "cool"
      [] name = "Neutral" -> "neutral"
      [] OTHER            -> name

\* metal_map.get(skin_tone.lower(), "Gold")
MetalMap(skin_tone) ==
    CASE LowerName(skin_tone) = "warm"    -> "Gold"
      [] LowerName(skin_tone) = "cool"    -> "Silver"
      [] LowerName(skin_tone) = "neutral" -> "Rose Gold"
      [] OTHER                            -> "Gold"

\* get_jewelry_metal without the occasion test
GetJewelryMetalNoOverride(skin_tone, occasion) == MetalMap(skin_tone)

\* get_jewelry_metal
GetJewelryMetal(skin_tone, occasion) ==
    IF LowerName(occasion) \in {"wedding", "diwali", "reception"} /\ skin_tone /= "cool"
    THEN "Gold"
    ELSE MetalMap(skin_tone)

\* _calculate_trend_score, in tenths of a point
CalculateTrendScore(items, trending, brief) ==
    IF items = <<>> \/ trending = <<>> THEN 50
    ELSE LET item_colors  == {items[i].color : i \in 1..Len(items)}
             color_hits   == Cardinality(item_colors \cap SeqToSet(trending))
             item_fabrics == {items[i].fabric : i \in 1..Len(items)}
             fabric_hits  == IF brief.present
                             THEN Cardinality(item_fabrics \cap SeqToSet(brief.key_fabrics))
                             ELSE 0
             color_part   == IF color_hits * 15 < 30 THEN color_hits * 15 ELSE 30
             fabric_part  == IF fabric_hits * 10 < 20 THEN fabric_hits * 10 ELSE 20
             score        == 50 + color_part + fabric_part
         IN  IF score < 100 THEN score ELSE 100

\* ------------------------------------------------------------------------
\* Feedback texts: sequences of characters
\* ------------------------------------------------------------------------
UPPER == <<"A", "B", "C", "D", "E", "F", "G", "H", "I", "J", "K", "L", "M",
           "N", "O", "P", "Q", "R", "S", "T", "U", "V", "W", "X", "Y", "Z">>

LOWER == <<"a", "b", "c", "d", "e", "f", "g", "h", "i", "j", "k", "l", "m",
           "n", "o", "p", "q", "r", "s", "t", "u", "v", "w", "x", "y", "z">>

LowerChar(c) ==
    IF \E i \in 1..26 : UPPER[i] = c
    THEN LOWER[CHOOSE i \in 1..26 : UPPER[i] = c]
    ELSE c

\* str.lower()
Lower(text) == [i \in 1..Len(text) |-> LowerChar(text[i])]

RECURSIVE LStrip(_)
LStrip(text) ==
    IF text /= <<>> /\ Head(text) = " " THEN LStrip(Tail(text)) ELSE text

RECURSIVE RStrip(_)
RStrip(text) ==
    IF text /= <<>> /\ text[Len(text)] = " "
    THEN RStrip(SubSeq(text, 1, Len(text) - 1))
    ELSE text

\* str.strip()
Strip(text) == RStrip(LStrip(text))

\* keyword in text
Contains(text, keyword) ==
    \E i \in 1..(Len(text) - Len(keyword) + 1) :
        SubSeq(text, i, i + Len(keyword) - 1) = keyword

Pattern(name, keywords, act) ==
    [name |-> name, keywords |-> keywords, action |-> act]

\* FEEDBACK_PATTERNS, in the order of the dictionary
FEEDBACK_PATTERNS ==
    <<
      Pattern("too_heavy",
        << <<"t", "o", "o", " ", "h", "e", "a", "v", "y">>,
           <<"l", "i", "g", "h", "t", "e", "r">>,
           <<"l", "i", "g", "h", "t", "w", "e", "i", "g", "h", "t">>,
           <<"b", "r", "e", "a", "t", "h", "a", "b", "l", "e">>,
           <<"l", "e", "s", "s", " ", "h", "e", "a", "v", "y">>,
           <<"t", "o", "o", " ", "w", "a", "r", "m">> >>,
        "swap_to_lighter_fabric"),
      Pattern("too_bright",
        << <<"t", "o", "o", " ", "b", "r", "i", "g", "h", "t">>,
           <<"m", "o", "r", "e", " ", "s", "u", "b", "t", "l", "e">>,
           <<"t", "o", "n", "e", "d", " ", "d", "o", "w", "n">>,
           <<"m", "u", "t", "e", "d">>,
           <<"l", "e", "s", "s", " ", "v", "i", "b", "r", "a", "n", "t">>,
           <<"p", "a", "s", "t", "e", "l">> >>,
        "shift_to_neutral_palette"),
      Pattern("cheaper",
        << <<"c", "h", "e", "a", "p", "e", "r">>,
           <<"l", "e", "s", "s", " ", "e", "x", "p", "e", "n", "s", "i", "v", "e">>,
           <<"b", "u", "d", "g", "e", "t">>,
           <<"a", "f", "f", "o", "r", "d", "a", "b", "l", "e">>,
           <<"l", "o", "w", " ", "c", "o", "s", "t">>,
           <<"t", "o", "o", " ", "e", "x", "p", "e", "n", "s", "i", "v", "e">> >>,
        "reduce_budget"),
      Pattern("bolder",
        << <<"b", "o", "l", "d", "e", "r">>,
           <<"m", "o", "r", "e", " ", "v", "i", "b", "r", "a", "n", "t">>,
           <<"b", "r", "i", "g", "h", "t", "e", "r">>,
           <<"p", "o", "p", " ", "o", "f", " ", "c", "o", "l", "o", "r">>,
           <<"s", "t", "a", "n", "d", " ", "o", "u", "t">>,
           <<"l", "o", "u", "d", "e", "r">> >>,
        "shift_to_bold_palette"),
      Pattern("change_color",
        << <<"m", "a", "k", "e", " ", "i", "t">>,
           <<"c", "h", "a", "n", "g", "e", " ", "t", "o">>,
           <<"p", "r", "e", "f", "e", "r">>,
           <<"i", "n", " ", "r", "e", "d">>,
           <<"i", "n", " ", "b", "l", "u", "e">>,
           <<"i", "n", " ", "g", "r", "e", "e", "n">>,
           <<"m", "o", "r", "e", " ", "b", "l", "u", "e">>,
           <<"m", "o", "r", "e", " ", "r", "e", "d">> >>,
        "change_primary_color"),
      Pattern("more_traditional",
        << <<"m", "o", "r", "e", " ", "t", "r", "a", "d", "i", "t", "i", "o", "n", "a", "l">>,
           <<"m", "o", "r", "e", " ", "e", "t", "h", "n", "i", "c">>,
           <<"h", "e", "a", "v", "i", "e", "r">>,
           <<"m", "o", "r", "e", " ", "i", "n", "d", "i", "a", "n">>,
           <<"c", "l", "a", "s", "s", "i", "c", " ", "l", "o", "o", "k">> >>,
        "shift_to_traditional"),
      Pattern("more_modern",
        << <<"m", "o", "r", "e", " ", "m", "o", "d", "e", "r", "n">>,
           <<"f", "u", "s", "i", "o", "n">>,
           <<"i", "n", "d", "o", "-", "w", "e", "s", "t", "e", "r", "n">>,
           <<"c", "o", "n", "t", "e", "m", "p", "o", "r", "a", "r", "y">>,
           <<"w", "e", "s", "t", "e", "r", "n">> >>,
        "shift_to_modern"),
      Pattern("reject",
        << <<"d", "o", "n", "'", "t", " ", "l", "i", "k", "e">>,
           <<"n", "o">>,
           <<"r", "e", "j", "e", "c", "t">>,
           <<"t", "r", "y", " ", "a", "g", "a", "i", "n">>,
           <<"s", "o", "m", "e", "t", "h", "i", "n", "g", " ", "e", "l", "s", "e">>,
           <<"d", "i", "f", "f", "e", "r", "e", "n", "t">> >>,
        "full_re_curate") >>

\* COLOR_NAMES with the COLOR_MAP entry of each name, in list order
COLOR_NAMES ==
    << [keyword |-> <<"r", "e", "d">>, color |-> "Red"],
       [keyword |-> <<"b", "l", "u", "e">>, color |-> "Cobalt Blue"],
       [keyword |-> <<"g", "r", "e", "e", "n">>, color |-> "Emerald Green"],
       [keyword |-> <<"y", "e", "l", "l", "o", "w">>, color |-> "Mustard Yellow"],
       [keyword |-> <<"b", "l", "a", "c", "k">>, color |-> "Black"],
       [keyword |-> <<"w", "h", "i", "t", "e">>, color |-> "White"],
       [keyword |-> <<"g", "o", "l", "d">>, color |-> "Gold"],
       [keyword |-> <<"s", "i", "l", "v", "e", "r">>, color |-> "Silver"],
       [keyword |-> <<"m", "a", "r", "o", "o", "n">>, color |-> "Maroon"],
       [keyword |-> <<"n", "a", "v", "y">>, color |-> "Navy Blue"],
       [keyword |-> <<"t", "e", "a", "l">>, color |-> "Teal"],
       [keyword |-> <<"c", "o", "r", "a", "l">>, color |-> "Coral"],
       [keyword |-> <<"p", "e", "a", "c", "h">>, color |-> "Peach"],
       [keyword |-> <<"l", "a", "v", "e", "n", "d", "e", "r">>, color |-> "Lavender"],
       [keyword |-> <<"m", "i", "n", "t">>, color |-> "Mint"],
       [keyword |-> <<"p", "i", "n", "k">>, color |-> "Pastel Pink"],
       [keyword |-> <<"p", "u", "r", "p", "l", "e">>, color |-> "Royal Purple"],
       [keyword |-> <<"o", "r", "a", "n", "g", "e">>, color |-> "Coral"],
       [keyword |-> <<"i", "v", "o", "r", "y">>, color |-> "Ivory"],
       [keyword |-> <<"b", "e", "i", "g", "e">>, color |-> "Beige"],
       [keyword |-> <<"c", "o", "b", "a", "l", "t">>, color |-> "Cobalt Blue"],
       [keyword |-> <<"e", "m", "e", "r", "a", "l", "d">>, color |-> "Emerald Green"],
       [keyword |-> <<"w", "i", "n", "e">>, color |-> "Deep Wine"] >>

\* ------------------------------------------------------------------------
\* FeedbackHandler
\* ------------------------------------------------------------------------
\* the classifier falling back to the first pattern of the table
ClassifyFirstFallback(feedback_lower) ==
    LET hits == { i \in 1..Len(FEEDBACK_PATTERNS) :
                    \E k \in 1..Len(FEEDBACK_PATTERNS[i].keywords) :
                        Contains(feedback_lower, FEEDBACK_PATTERNS[i].keywords[k]) }
    IN  IF hits /= {}
        THEN FEEDBACK_PATTERNS[CHOOSE i \in hits : \A j \in hits : i <= j]
        ELSE FEEDBACK_PATTERNS[1]

\* process, lines 92-103: the first pattern, in dictionary order, one of
\* whose keywords occurs in the text; "reject" when none does
Classify(feedback_lower) ==
    LET hits == { i \in 1..Len(FEEDBACK_PATTERNS) :
                    \E k \in 1..Len(FEEDBACK_PATTERNS[i].keywords) :
                        Contains(feedback_lower, FEEDBACK_PATTERNS[i].keywords[k]) }
    IN  IF hits /= {}
        THEN FEEDBACK_PATTERNS[CHOOSE i \in hits : \A j \in hits : i <= j]
        ELSE FEEDBACK_PATTERNS[8]

\* _extract_color: the COLOR_MAP entry of the first colour name that
\* occurs in the text, "" when none does
ExtractColor(text) ==
    LET hits == { i \in 1..Len(COLOR_NAMES) : Contains(text, COLOR_NAMES[i].keyword) }
    IN  IF hits /= {}
        THEN COLOR_NAMES[CHOOSE i \in hits : \A j \in hits : i <= j].color
        ELSE ""

\* _swap_lighter without the slice
SwapLighterAll(st) ==
    IF st.trend_brief.present
    THEN [st EXCEPT !.trend_brief.key_fabrics =
            <<"Chiffon", "Georgette", "Cotton", "Linen", "Chanderi Silk", "Organza">>]
    ELSE st

\* _swap_lighter
SwapLighter(st) ==
    IF st.trend_brief.present
    THEN [st EXCEPT !.trend_brief.key_fabrics =
            Take(<<"Chiffon", "Georgette", "Cotton", "Linen", "Chanderi Silk", "Organza">>, 4)]
    ELSE st

\* _shift_neutral
ShiftNeutral(st) ==
    IF st.trend_brief.present
    THEN [st EXCEPT !.trend_brief.trending_colors =
            <<"Ivory", "Lavender", "Mint", "Peach", "Beige">>]
    ELSE st

\* _reduce_budget: budget * 0.7, in whole rupees (prices are whole, so
\* every later comparison price <= budget is unchanged by the floor)
ReduceBudget(st) == [st EXCEPT !.budget = (st.budget * 7) \div 10]

\* _shift_bold
ShiftBold(st) ==
    IF st.trend_brief.present
    THEN [st EXCEPT !.trend_brief.trending_colors =
            <<"Cobalt Blue", "Emerald Green", "Red", "Electric Indigo", "Magenta">>]
    ELSE st

\* _change_color without the [:4] slice
ChangeColorNoSlice(st, color) ==
    IF color /= "" /\ st.trend_brief.present
    THEN [st EXCEPT !.trend_brief.trending_colors =
            <<color>> \o FilterOut(st.trend_brief.trending_colors, {color})]
    ELSE st

\* _change_color: [color] + [c for c in trending_colors if c != color][:4]
ChangeColor(st, color) ==
    IF color /= "" /\ st.trend_brief.present
    THEN [st EXCEPT !.trend_brief.trending_colors =
            <<color>> \o Take(FilterOut(st.trend_brief.trending_colors, {color}), 4)]
    ELSE st

\* _shift_traditional
ShiftTraditional(st) ==
    IF st.trend_brief.present
    THEN [st EXCEPT !.trend_brief.key_fabrics =
                        <<"Kanjeevaram Silk", "Banarasi Silk", "Velvet", "Raw Silk">>,
                    !.trend_brief.must_have_silhouette =
                        <<"Draped", "Structured", "Flared">>]
    ELSE st

\* _shift_modern
ShiftModern(st) ==
    IF st.trend_brief.present
    THEN [st EXCEPT !.trend_brief.key_fabrics =
                        <<"Organza", "Sequin Georgette", "Cotton Blend", "Linen">>,
                    !.trend_brief.must_have_silhouette =
                        <<"Pre-Draped", "Slim Fit", "Crop">>]
    ELSE st

\* _full_re_curate: colors[2:] + colors[:2] when there are more than two
FullReCurate(st) ==
    IF st.trend_brief.present /\ Len(st.trend_brief.trending_colors) > 2
    THEN [st EXCEPT !.trend_brief.trending_colors =
            Drop(st.trend_brief.trending_colors, 2) \o Take(st.trend_brief.trending_colors, 2)]
    ELSE st

\* process, lines 111-129: the mutation each action stands for
Execute(act, feedback_lower, st) ==
    CASE act = "swap_to_lighter_fabric"   -> SwapLighter(st)
      [] act = "shift_to_neutral_palette" -> ShiftNeutral(st)
      [] act = "reduce_budget"            -> ReduceBudget(st)
      [] act = "shift_to_bold_palette"    -> ShiftBold(st)
      [] act = "change_primary_color"     -> ChangeColor(st, ExtractColor(feedback_lower))
      [] act = "shift_to_traditional"     -> ShiftTraditional(st)
      [] act = "shift_to_modern"          -> ShiftModern(st)
      [] act = "full_re_curate"           -> FullReCurate(st)
      [] OTHER                            -> st

\* a process that leaves the blacklist as it was
MarkRejectedNone(rejected, items) == rejected

\* the blacklist replaced by the SKUs of the current items
MarkRejectedOnlyCurrent(rejected, items) ==
    IF items = <<>> THEN rejected
    ELSE [i \in 1..Len(items) |-> items[i].sku]

RECURSIVE MarkRejected(_, _)
\* process, lines 131-135: append the SKU of every current item that is
\* not yet on the blacklist
MarkRejected(rejected, items) ==
    IF items = <<>> THEN rejected
    ELSE MarkRejected(IF Head(items).sku \in SeqToSet(rejected)
                      THEN rejected
                      ELSE Append(rejected, Head(items).sku),
                      Tail(items))

\* reset_for_refinement emptying the blacklist, as full_reset does
ResetForRefinementClears(st) ==
    [st EXCEPT !.inventory_match = <<>>,
               !.final_recommendation = NoRecommendation,
               !.current_step = "wardrobe_architect",
               !.rejected_skus = <<>>,
               !.iteration = st.iteration + 1]

\* StyleState.reset_for_refinement
ResetForRefinement(st) ==
    [st EXCEPT !.inventory_match = <<>>,
               !.final_recommendation = NoRecommendation,
               !.current_step = "wardrobe_architect",
               !.iteration = st.iteration + 1]

\* FeedbackHandler.process
Process(text, st) ==
    LET feedback_lower == Strip(Lower(text))
        logged  == [st EXCEPT !.feedback_history = Append(st.feedback_history, text)]
        act     == Classify(feedback_lower).action
        mutated == Execute(act, feedback_lower, logged)
        marked  == IF mutated.final_recommendation.present
                   THEN [mutated EXCEPT !.rejected_skus =
                            MarkRejected(mutated.rejected_skus,
                                         mutated.final_recommendation.outfit_items)]
                   ELSE mutated
    IN  ResetForRefinement(marked)

\* ------------------------------------------------------------------------
\* The feedback texts the sessions use
\* ------------------------------------------------------------------------
RECURSIVE Join(_)
\* the fragments of a text, separated by single spaces
Join(fragments) ==
    IF fragments = <<>> THEN <<>>
    ELSE IF Len(fragments) = 1 THEN Head(fragments)
    ELSE Head(fragments) \o <<" ">> \o Join(Tail(fragments))

FragMeh == <<"m", "e", "h">>

FragTooHeavy == <<"T", "o", "o", " ", "h", "e", "a", "v", "y">>

FragMuted == <<"m", "u", "t", "e", "d">>

FragCheaper == <<"c", "h", "e", "a", "p", "e", "r">>

FragBolder == <<"B", "o", "l", "d", "e", "r">>

FragMakeIt == <<"m", "a", "k", "e", " ", "i", "t">>

FragPrefer == <<"I", " ", "p", "r", "e", "f", "e", "r">>

FragRed == <<"r", "e", "d">>

FragTeal == <<"t", "e", "a", "l">>

FragSparkly == <<"s", "p", "a", "r", "k", "l", "y">>

FragTraditional == <<"m", "o", "r", "e", " ", "t", "r", "a", "d", "i", "t", "i", "o", "n", "a", "l">>

FragFusion == <<"f", "u", "s", "i", "o", "n">>

FragNo == <<"n", "o">>

FragPreferred == <<"p", "r", "e", "f", "e", "r", "r", "e", "d">>

Fragments ==
    {FragMeh, FragTooHeavy, FragMuted, FragCheaper, FragBolder, FragMakeIt, FragPrefer, FragRed, FragTeal, FragSparkly, FragTraditional, FragFusion, FragNo, FragPreferred}

\* the texts of the refinement sessions: unrecognised, cheaper, a colour
\* of the vocabulary, a colour request that names no colour
FeedbackTexts ==
    { Join(<<FragMeh>>), Join(<<FragCheaper>>),
      Join(<<FragMakeIt, FragRed>>), Join(<<FragPrefer, FragSparkly>>) }

\* ------------------------------------------------------------------------
\* WardrobeArchitectAgent.curate, one step per slot
\* ------------------------------------------------------------------------
NoCallInFlight == pc \in {"idle", "done", "raised"}

\* curate, lines 51-93: the locals computed before the first slot
CurateBegin(st) ==
    LET trending == IF st.trend_brief.present
                    THEN st.trend_brief.trending_colors
                    ELSE Take(GuidanceColors(IF st.occasion = "" THEN "date_night" ELSE st.occasion), 3)
        user     == IF st.user_style_profile.present
                    THEN st.user_style_profile.dominant_colors
                    ELSE <<>>
    IN  /\ state' = [st EXCEPT !.current_step = "wardrobe_architect"]
        /\ budget' = (IF st.budget = 0 THEN DefaultBudget ELSE st.budget)
        /\ trending_colors' = trending
        /\ user_colors' = user
        /\ accent_colors' = FilterOut(trending, SeqToSet(user))
        /\ remaining' = (IF st.budget = 0 THEN DefaultBudget ELSE st.budget)
        /\ main_piece' = NotFound
        /\ match_tier' = 0
        /\ outfit_items' = <<>>
        /\ primary_colors' = <<>>
        /\ vibe_hits' = 0
        /\ total_items' = 0
        /\ attempted' = <<>>
        /\ raised' = ""
        /\ pc' = "main"

\* StyleOrchestrator.run_pipeline: a fresh StyleState, the trend scout and
\* the persona agent fill in the brief and the profile, then curate
RunPipeline ==
    /\ pc = "idle"
    /\ \E trend \in {t \in TrendInputs : t.present},
          profile \in {p \in ProfileInputs : p.present},
          b \in BudgetInputs, vibe \in VibeInputs,
          occasion \in OccasionInputs, gender \in GenderInputs :
            LET st == StyleState(trend, profile, occasion, gender, b, vibe)
            IN  CurateBegin(st) /\ state_before' = st
    /\ call' = "run_pipeline"
    /\ UNCHANGED <<guiVars, fnVars>>
    /\ UNCHANGED <<catalog, vibe_column, feedback_text, action>>

\* blacklists a caller may hand over with a StyleState it built
RejectedInputs == {<<>>, <<"SKU-FUL-1", "SKU-JEW-2">>}

\* curate called on a StyleState the caller built itself: the trend brief
\* or the style profile missing, or a blacklist carried over
CurateDirect ==
    /\ pc = "idle"
    /\ \E trend \in TrendInputs, profile \in ProfileInputs,
          b \in BudgetInputs, vibe \in VibeInputs,
          occasion \in OccasionInputs, gender \in GenderInputs,
          rejected \in RejectedInputs :
            LET st == [StyleState(trend, profile, occasion, gender, b, vibe)
                         EXCEPT !.rejected_skus = rejected]
            IN  /\ ~trend.present \/ ~profile.present \/ rejected /= <<>>
                /\ CurateBegin(st)
                /\ state_before' = st
    /\ call' = "curate"
    /\ UNCHANGED <<guiVars, fnVars>>
    /\ UNCHANGED <<catalog, vibe_column, feedback_text, action>>

Raise(exception) ==
    /\ raised' = exception
    /\ pc' = "raised"

\* bookkeeping after a slot's query returned `out` (lines 99-105 and the
\* like): count, deduct, append
Select(out, role, tracksColor) ==
    /\ total_items' = (IF out.found THEN total_items + 1 ELSE total_items)
    /\ vibe_hits' = (IF out.found /\ out.matched_vibe THEN vibe_hits + 1 ELSE vibe_hits)
    /\ remaining' = (IF out.found THEN remaining - out.row.price ELSE remaining)
    /\ outfit_items' = (IF out.found THEN Append(outfit_items, OutfitItem(out.row, role)) ELSE outfit_items)
    /\ primary_colors' = (IF out.found /\ tracksColor
                          THEN Append(primary_colors, out.row.color_family)
                          ELSE primary_colors)

\* lines 95-105: the main piece
MainStep ==
    /\ pc = "main"
    /\ attempted' = Append(attempted, "main")
    /\ IF VibeQueryRaises(state.preferred_vibe)
       THEN /\ Raise("OperationalError")
            /\ UNCHANGED <<remaining, main_piece, match_tier,
                           outfit_items, primary_colors, vibe_hits, total_items>>
       ELSE \E out \in FindMainPiece(state.occasion, state.gender, budget, trending_colors,
                                     user_colors, state.rejected_skus,
                                     state.preferred_clothing_type, state.preferred_vibe) :
                /\ main_piece' = out
                /\ match_tier' = out.tier
                /\ Select(out, "The Base - Main Piece", TRUE)
                /\ pc' = "comp"
                /\ UNCHANGED raised
    /\ UNCHANGED <<guiVars, fnVars>>
    /\ UNCHANGED <<catalog, vibe_column, state, call, budget, trending_colors,
                   user_colors, accent_colors, feedback_text, action, state_before>>

\* lines 107-119: the complementary piece.  get_secondary_colors is not
\* among the names imported from color_engine (lines 13-16), so line 110
\* raises NameError before _find_piece is called
CompStep ==
    /\ pc = "comp"
    /\ IF main_piece.found /\ main_piece.row.category /= "Full"
       THEN Raise("NameError")
       ELSE pc' = "layer" /\ UNCHANGED raised
    /\ UNCHANGED <<guiVars, fnVars>>
    /\ UNCHANGED <<catalog, vibe_column, state, call, budget, trending_colors,
                   user_colors, accent_colors, remaining, main_piece, match_tier,
                   outfit_items, primary_colors, vibe_hits, total_items, attempted,
                   feedback_text, action, state_before>>

\* lines 121-132: the layer.  Line 123 calls get_secondary_colors when
\* primary_colors is non-empty (NameError); otherwise sec_colors is []
LayerStep ==
    /\ pc = "layer"
    /\ IF primary_colors /= <<>>
       THEN /\ Raise("NameError")
            /\ UNCHANGED <<remaining, outfit_items, primary_colors,
                           vibe_hits, total_items, attempted>>
       ELSE /\ attempted' = Append(attempted, "layer")
            /\ IF VibeQueryRaises(state.preferred_vibe)
               THEN /\ Raise("OperationalError")
                    /\ UNCHANGED <<remaining, outfit_items,
                                   primary_colors, vibe_hits, total_items>>
               ELSE \E out \in FindLayer(state.occasion, state.gender, remaining,
                                         state.rejected_skus, state.preferred_vibe) :
                        /\ Select(out, "The Layer", TRUE)
                        /\ pc' = "jewelry"
                        /\ UNCHANGED raised
    /\ UNCHANGED <<guiVars, fnVars>>
    /\ UNCHANGED <<catalog, vibe_column, state, call, budget, trending_colors,
                   user_colors, accent_colors, main_piece, match_tier,
                   feedback_text, action, state_before>>

\* lines 134-144: jewellery in the metal the skin tone calls for
JewelryStep ==
    /\ pc = "jewelry"
    /\ attempted' = Append(attempted, "jewelry")
    /\ IF VibeQueryRaises(state.preferred_vibe)
       THEN /\ Raise("OperationalError")
            /\ UNCHANGED <<remaining, outfit_items,
                           primary_colors, vibe_hits, total_items>>
       ELSE LET skin_tone == IF state.user_style_profile.present
                             THEN state.user_style_profile.skin_tone
                             ELSE "neutral"
                metal     == GetJewelryMetal(skin_tone, state.occasion)
            IN  \E out \in FindJewelry(state.occasion, state.gender, metal, remaining,
                                       state.rejected_skus, state.preferred_jewelry_type,
                                       state.preferred_vibe) :
                    /\ Select(out, "The Accents - Jewelry", TRUE)
                    /\ pc' = "footwear"
                    /\ UNCHANGED raised
    /\ UNCHANGED <<guiVars, fnVars>>
    /\ UNCHANGED <<catalog, vibe_column, state, call, budget, trending_colors,
                   user_colors, accent_colors, main_piece, match_tier,
                   feedback_text, action, state_before>>

\* lines 146-154: footwear
FootwearStep ==
    /\ pc = "footwear"
    /\ attempted' = Append(attempted, "footwear")
    /\ IF VibeQueryRaises(state.preferred_vibe)
       THEN /\ Raise("OperationalError")
            /\ UNCHANGED <<remaining, outfit_items,
                           primary_colors, vibe_hits, total_items>>
       ELSE \E out \in FindFootwear(state.occasion, state.gender, remaining,
                                    state.rejected_skus, state.preferred_vibe) :
                /\ Select(out, "The Finishing Touches - Footwear", FALSE)
                /\ pc' = "accessory"
                /\ UNCHANGED raised
    /\ UNCHANGED <<guiVars, fnVars>>
    /\ UNCHANGED <<catalog, vibe_column, state, call, budget, trending_colors,
                   user_colors, accent_colors, main_piece, match_tier,
                   feedback_text, action, state_before>>

\* lines 156-167: the accessory; its colour joins primary_colors only when
\* it is one of the accent colours
AccessoryStep ==
    /\ pc = "accessory"
    /\ attempted' = Append(attempted, "accessory")
    /\ IF VibeQueryRaises(state.preferred_vibe)
       THEN /\ Raise("OperationalError")
            /\ UNCHANGED <<remaining, outfit_items,
                           primary_colors, vibe_hits, total_items>>
       ELSE \E out \in FindAccessory(state.occasion, state.gender, remaining, accent_colors,
                                     state.rejected_skus, state.preferred_accessory_type,
                                     state.preferred_vibe) :
                LET is_accent == out.found /\ out.row.color_family \in SeqToSet(accent_colors)
                IN  /\ Select(out, IF is_accent THEN "The Accents - Hero Accessory"
                                                ELSE "The Accents - Accessory", is_accent)
                    /\ pc' = "wrapup"
                    /\ UNCHANGED raised
    /\ UNCHANGED <<guiVars, fnVars>>
    /\ UNCHANGED <<catalog, vibe_column, state, call, budget, trending_colors,
                   user_colors, accent_colors, main_piece, match_tier,
                   feedback_text, action, state_before>>

\* confidence_score = vibe_hits / total_items * 100, in hundredths of a
\* percent, 0 when nothing was selected
ConfidenceScore(hits, total) == IF total > 0 THEN (hits * 10000) \div total ELSE 0

\* the end of curate putting the items it shows on the blacklist itself
WrapUpMarksShown ==
    /\ pc = "wrapup"
    /\ state' = [state EXCEPT
            !.final_recommendation =
                FinalRecommendation(TRUE, outfit_items,
                    ConfidenceScore(vibe_hits, total_items),
                    CalculateTrendScore(outfit_items, trending_colors, state.trend_brief),
                    IF outfit_items /= <<>> THEN "available" ELSE "out_of_stock"),
            !.inventory_match = [i \in 1..Len(outfit_items) |-> outfit_items[i].sku],
            !.rejected_skus = MarkRejected(@, outfit_items),
            !.current_step = "complete"]
    /\ pc' = "done"
    /\ UNCHANGED <<guiVars, fnVars>>
    /\ UNCHANGED <<catalog, vibe_column, call, budget, trending_colors, user_colors,
                   accent_colors, remaining, main_piece, match_tier, outfit_items,
                   primary_colors, vibe_hits, total_items, attempted, raised,
                   feedback_text, action, state_before>>

\* lines 169-221: scores, the recommendation, the state hand-back
WrapUp ==
    /\ pc = "wrapup"
    /\ state' = [state EXCEPT
            !.final_recommendation =
                FinalRecommendation(TRUE, outfit_items,
                    ConfidenceScore(vibe_hits, total_items),
                    CalculateTrendScore(outfit_items, trending_colors, state.trend_brief),
                    IF outfit_items /= <<>> THEN "available" ELSE "out_of_stock"),
            !.inventory_match = [i \in 1..Len(outfit_items) |-> outfit_items[i].sku],
            !.current_step = "complete"]
    /\ pc' = "done"
    /\ UNCHANGED <<guiVars, fnVars>>
    /\ UNCHANGED <<catalog, vibe_column, call, budget, trending_colors, user_colors,
                   accent_colors, remaining, main_piece, match_tier, outfit_items,
                   primary_colors, vibe_hits, total_items, attempted, raised,
                   feedback_text, action, state_before>>

\* StyleOrchestrator.process_feedback: FeedbackHandler.process, then
\* curate on the state it returns
ProcessFeedback ==
    /\ NoCallInFlight
    /\ call /= "none"
    /\ state.iteration < MaxIteration
    /\ \E text \in FeedbackTexts :
        /\ feedback_text' = text
        /\ action' = Classify(Strip(Lower(text))).action
        /\ CurateBegin(Process(text, state))
    /\ state_before' = state
    /\ call' = "process_feedback"
    /\ UNCHANGED <<guiVars, fnVars>>
    /\ UNCHANGED <<catalog, vibe_column>>

\* StyleState() as the constructors of the hosts build it
FreshStyleState == StyleState(NoTrendBrief, NoProfile, "", "", 15000, "Any")

\* no curate or process call has been made: the locals hold nothing
NoCallYet ==
    /\ budget = 0
    /\ trending_colors = <<>>
    /\ user_colors = <<>>
    /\ accent_colors = <<>>
    /\ remaining = 0
    /\ main_piece = NotFound
    /\ match_tier = 0
    /\ outfit_items = <<>>
    /\ primary_colors = <<>>
    /\ vibe_hits = 0
    /\ total_items = 0
    /\ attempted = <<>>
    /\ raised = ""
    /\ feedback_text = <<>>
    /\ action = ""
    /\ state_before = FreshStyleState

\* StyleApp.__init__, the part that concerns the engine: one StyleState
\* object, no worker, the Curate button enabled, the placeholder lookbook
GuiObject(rec, step) ==
    [final_recommendation |-> rec, current_step |-> step]

NoWorker == [kind |-> "none", pc |-> "done", ref |-> 0]

MaxWorkers == 2

MaxObjects == 2

GuiIdle ==
    /\ app_state = 0
    /\ heap = [o \in {0} |-> GuiObject("none", "idle")]
    /\ workers = [w \in 1..MaxWorkers |-> NoWorker]
    /\ run_btn = "normal"
    /\ lookbook = FALSE
    /\ after_queue = <<>>

\* no library function has been called on its own
NoFunctionCalled ==
    /\ fn = ""
    /\ args = <<>>
    /\ result = <<>>

\* StyleOrchestrator.__init__: a new orchestrator with an empty StyleState.
\* run_pipeline replaces the whole StyleState, so a second pipeline run is
\* a new orchestrator followed by RunPipeline
NewOrchestrator ==
    /\ pc \in {"done", "raised"}
    /\ state' = FreshStyleState
    /\ state_before' = FreshStyleState
    /\ pc' = "idle"
    /\ call' = "none"
    /\ budget' = 0
    /\ trending_colors' = <<>>
    /\ user_colors' = <<>>
    /\ accent_colors' = <<>>
    /\ remaining' = 0
    /\ main_piece' = NotFound
    /\ match_tier' = 0
    /\ outfit_items' = <<>>
    /\ primary_colors' = <<>>
    /\ vibe_hits' = 0
    /\ total_items' = 0
    /\ attempted' = <<>>
    /\ raised' = ""
    /\ feedback_text' = <<>>
    /\ action' = ""
    /\ UNCHANGED <<guiVars, fnVars>>
    /\ UNCHANGED <<catalog, vibe_column>>

Init ==
    /\ catalog \in Catalogs
    /\ vibe_column \in BOOLEAN
    /\ state = FreshStyleState
    /\ pc = "idle"
    /\ call = "none"
    /\ NoCallYet
    /\ GuiIdle
    /\ NoFunctionCalled

Next ==
    \/ RunPipeline
    \/ CurateDirect
    \/ MainStep
    \/ CompStep
    \/ LayerStep
    \/ JewelryStep
    \/ FootwearStep
    \/ AccessoryStep
    \/ WrapUp
    \/ ProcessFeedback
    \/ NewOrchestrator

Spec == Init /\ [][Next]_vars

\* ------------------------------------------------------------------------
\* FeedbackHandler.process on its own: the classifier over composed texts
\* ------------------------------------------------------------------------
MaxFragments == 2

RECURSIVE FragmentSeqs(_)
\* the sequences of at most n fragments
FragmentSeqs(n) ==
    IF n = 0 THEN {<<>>}
    ELSE FragmentSeqs(n - 1) \cup
         { Append(fs, f) : fs \in {g \in FragmentSeqs(n - 1) : Len(g) = n - 1}, f \in Fragments }

ComposedTexts == { Join(fs) : fs \in FragmentSeqs(MaxFragments) }

\* a recommendation a feedback may arrive for
SampleRecommendation ==
    FinalRecommendation(TRUE,
        <<OutfitItem(JEW2, "The Accents - Jewelry"), OutfitItem(ACC1, "The Accents - Hero Accessory")>>,
        0, 50, "available")

InitFeedback ==
    /\ catalog = {}
    /\ vibe_column = FALSE
    /\ \E trend \in TrendInputs, rec \in {NoRecommendation, SampleRecommendation} :
        state = [StyleState(trend, NoProfile, "wedding", "female", 1000, "Any")
                   EXCEPT !.final_recommendation = rec,
                          !.current_step = IF rec.present THEN "complete" ELSE "idle"]
    /\ pc = "feedback"
    /\ call = "none"
    /\ NoCallYet
    /\ GuiIdle
    /\ NoFunctionCalled

\* FeedbackHandler.process(feedback_text, state)
ProcessText ==
    /\ pc = "feedback"
    /\ \E text \in ComposedTexts :
        /\ feedback_text' = text
        /\ action' = Classify(Strip(Lower(text))).action
        /\ state' = Process(text, state)
    /\ state_before' = state
    /\ pc' = "processed"
    /\ UNCHANGED <<guiVars, fnVars>>
    /\ UNCHANGED <<catalog, vibe_column, call, budget, trending_colors, user_colors,
                   accent_colors, remaining, main_piece, match_tier, outfit_items,
                   primary_colors, vibe_hits, total_items, attempted, raised>>

NextFeedback == ProcessText

SpecFeedback == InitFeedback /\ [][NextFeedback]_vars

\* ------------------------------------------------------------------------
\* StyleApp: the Tk main thread, its worker threads and self.app_state
\* ------------------------------------------------------------------------
\* self.app_state is a reference into heap; a StyleState object is kept by
\* the two fields the handlers branch on.  final_recommendation is "none"
\* (None), "empty" (a FinalRecommendation without items, truthy) or "items".

\* a slot a new threading.Thread can take: no thread, or one whose
\* self.after callback has already run
FreeSlots == {w \in 1..MaxWorkers : workers[w].kind = "none"}

\* the threads inside wardrobe_architect.curate or feedback_handler.process
InEngine == {w \in 1..MaxWorkers :
               workers[w].kind /= "none" /\ workers[w].pc \in {"curate", "process"}}

\* threading.Thread(target=self._run_pipeline_thread).start() / (..._feedback_thread)
StartThread(kind, first) ==
    \E w \in FreeSlots :
        /\ \A v \in FreeSlots : w <= v
        /\ workers' = [workers EXCEPT ![w] = [kind |-> kind, pc |-> first, ref |-> 0]]

\* _on_curate, the body shared by the Curate button and _on_send; the
\* number of StyleState objects ever constructed is capped by MaxObjects
OnCurate ==
    /\ Cardinality(DOMAIN heap) + Cardinality({w \in 1..MaxWorkers : workers[w].pc = "init"})
          <= MaxObjects
    /\ run_btn' = "disabled"
    /\ StartThread("pipeline", "init")
    /\ UNCHANGED <<app_state, heap, lookbook, after_queue>>

\* _on_feedback, the body shared by the feedback buttons and _on_send
OnFeedback ==
    /\ run_btn' = "disabled"
    /\ StartThread("feedback", "call_process")
    /\ UNCHANGED <<app_state, heap, lookbook, after_queue>>

\* the Curate button (command=self._on_curate): Tk delivers the click only
\* while the button is in state "normal"
OnCurateClick ==
    /\ run_btn = "normal"
    /\ OnCurate
    /\ UNCHANGED <<engineVars, fnVars>>

\* _on_send, bound to <Return> and to the Send button, with a non-empty
\* text: neither binding is ever disabled
OnSend ==
    /\ IF heap[app_state].final_recommendation /= "none"
       THEN OnFeedback
       ELSE OnCurate
    /\ UNCHANGED <<engineVars, fnVars>>

\* one of the four refine buttons of a displayed lookbook
OnFeedbackClick ==
    /\ lookbook
    /\ OnFeedback
    /\ UNCHANGED <<engineVars, fnVars>>

\* _run_pipeline_thread: self.app_state = StyleState(...)
PipelineInit(w) ==
    /\ workers[w].kind = "pipeline" /\ workers[w].pc = "init"
    /\ LET o == Cardinality(DOMAIN heap) IN
        /\ heap' = [x \in DOMAIN heap \cup {o} |->
                      IF x = o THEN GuiObject("none", "idle") ELSE heap[x]]
        /\ app_state' = o
    /\ workers' = [workers EXCEPT ![w].pc = "call_trend"]
    /\ UNCHANGED <<run_btn, lookbook, after_queue>>

\* the argument self.app_state is read, and the callee entered:
\* trend_scout.run, customer_persona.run, wardrobe_architect.curate each
\* set state.current_step on entry
CallAgent(w, at, step, inside) ==
    /\ workers[w].kind /= "none" /\ workers[w].pc = at
    /\ workers' = [workers EXCEPT ![w].pc = inside, ![w].ref = app_state]
    /\ heap' = [heap EXCEPT ![app_state].current_step = step]
    /\ UNCHANGED <<app_state, run_btn, lookbook, after_queue>>

\* the callee returns the object it was given, which is assigned to
\* self.app_state
ReturnAgent(w, inside, next) ==
    /\ workers[w].kind /= "none" /\ workers[w].pc = inside
    /\ app_state' = workers[w].ref
    /\ workers' = [workers EXCEPT ![w].pc = next]
    /\ UNCHANGED <<heap, run_btn, lookbook, after_queue>>

TrendCall(w) == CallAgent(w, "call_trend", "trend_scout", "trend")

TrendReturn(w) == ReturnAgent(w, "trend", "call_persona")

PersonaCall(w) == CallAgent(w, "call_persona", "customer_persona", "persona")

PersonaReturn(w) == ReturnAgent(w, "persona", "call_curate")

CurateCall(w) == CallAgent(w, "call_curate", "wardrobe_architect", "curate")

\* self.after(0, callback), run by the main thread in the order posted
Post(w, callback) == after_queue' = Append(after_queue, [worker |-> w, callback |-> callback])

\* curate returns: final_recommendation and current_step are written on
\* the object it was given, the object is assigned to self.app_state, and
\* _on_pipeline_complete is posted
CurateReturn(w) ==
    /\ workers[w].kind /= "none" /\ workers[w].pc = "curate"
    /\ \E rec \in {"empty", "items"} :
        heap' = [heap EXCEPT ![workers[w].ref] = GuiObject(rec, "complete")]
    /\ app_state' = workers[w].ref
    /\ workers' = [workers EXCEPT ![w].pc = "posted"]
    /\ Post(w, "complete")
    /\ UNCHANGED <<run_btn, lookbook>>

\* curate raises: the except clause posts _on_pipeline_error
CurateRaise(w) ==
    /\ workers[w].kind /= "none" /\ workers[w].pc = "curate"
    /\ workers' = [workers EXCEPT ![w].pc = "posted"]
    /\ Post(w, "error")
    /\ UNCHANGED <<app_state, heap, run_btn, lookbook>>

\* _run_feedback_thread: feedback_handler.process(feedback_text, self.app_state)
ProcessCall(w) ==
    /\ workers[w].kind = "feedback" /\ workers[w].pc = "call_process"
    /\ workers' = [workers EXCEPT ![w].pc = "process", ![w].ref = app_state]
    /\ UNCHANGED <<app_state, heap, run_btn, lookbook, after_queue>>

\* process returns after reset_for_refinement on the object it was given
ProcessReturn(w) ==
    /\ workers[w].kind = "feedback" /\ workers[w].pc = "process"
    /\ heap' = [heap EXCEPT ![workers[w].ref] = GuiObject("none", "wardrobe_architect")]
    /\ app_state' = workers[w].ref
    /\ workers' = [workers EXCEPT ![w].pc = "call_curate"]
    /\ UNCHANGED <<run_btn, lookbook, after_queue>>

\* _on_pipeline_complete
OnPipelineComplete ==
    /\ after_queue /= <<>>
    /\ Head(after_queue).callback = "complete"
    /\ run_btn' = "normal"
    /\ lookbook' = (lookbook \/ heap[app_state].final_recommendation = "items")
    /\ workers' = [workers EXCEPT ![Head(after_queue).worker] = NoWorker]
    /\ after_queue' = Tail(after_queue)
    /\ UNCHANGED <<app_state, heap>>
    /\ UNCHANGED <<engineVars, fnVars>>

\* _on_pipeline_error
OnPipelineError ==
    /\ after_queue /= <<>>
    /\ Head(after_queue).callback = "error"
    /\ run_btn' = "normal"
    /\ workers' = [workers EXCEPT ![Head(after_queue).worker] = NoWorker]
    /\ after_queue' = Tail(after_queue)
    /\ UNCHANGED <<app_state, heap, lookbook>>
    /\ UNCHANGED <<engineVars, fnVars>>

\* one step of one worker thread
WorkerStep ==
    /\ \E w \in 1..MaxWorkers :
        \/ PipelineInit(w)
        \/ TrendCall(w)
        \/ TrendReturn(w)
        \/ PersonaCall(w)
        \/ PersonaReturn(w)
        \/ CurateCall(w)
        \/ CurateReturn(w)
        \/ CurateRaise(w)
        \/ ProcessCall(w)
        \/ ProcessReturn(w)
    /\ UNCHANGED <<engineVars, fnVars>>

\* StyleApp.__init__
InitGui ==
    /\ catalog = {}
    /\ vibe_column = FALSE
    /\ state = FreshStyleState
    /\ pc = "gui"
    /\ call = "none"
    /\ NoCallYet
    /\ GuiIdle
    /\ NoFunctionCalled

NextGui ==
    \/ OnCurateClick
    \/ OnSend
    \/ OnFeedbackClick
    \/ WorkerStep
    \/ OnPipelineComplete
    \/ OnPipelineError

SpecGui == InitGui /\ [][NextGui]_vars

\* ------------------------------------------------------------------------
\* The library functions called on their own
\* ------------------------------------------------------------------------
MaxItems == 3

RECURSIVE SeqsUpTo(_, _)
\* the sequences of at most n elements of S
SeqsUpTo(S, n) ==
    IF n = 0 THEN {<<>>}
    ELSE SeqsUpTo(S, n - 1) \cup
         { Append(q, x) : q \in {t \in SeqsUpTo(S, n - 1) : Len(t) = n - 1}, x \in S }

\* a trend brief whose colours are empty while its fabrics are not, as
\* TrendBrief(key_fabrics=[...]) builds it and as _swap_lighter leaves a
\* brief that had no colours
FabricsOnlyBrief == TrendBrief(TRUE, <<>>, <<"Velvet", "Silk">>, <<>>)

\* _calculate_trend_score(items, trending_colors, trend_brief), with
\* trending_colors as line 78 of curate derives it from the brief
CallTrendScore ==
    /\ fn = ""
    /\ \E items \in SeqsUpTo({LAY1, JEW1, ACC1, ACC2, FUL1}, MaxItems),
          brief \in TrendInputs \cup {FabricsOnlyBrief} :
        LET bundle   == [i \in 1..Len(items) |-> OutfitItem(items[i], "")]
            trending == IF brief.present THEN brief.trending_colors
                        ELSE Take(GuidanceColors("wedding"), 3)
        IN  /\ args' = [items |-> bundle, trending_colors |-> trending, trend_brief |-> brief]
            /\ result' = CalculateTrendScore(bundle, trending, brief)
    /\ fn' = "_calculate_trend_score"
    /\ UNCHANGED <<engineVars, guiVars>>

\* ------------------------------------------------------------------------
\* ColourWheel (src/agents/colour_engine_agent.py), in exact arithmetic
\* ------------------------------------------------------------------------
\* A HEX colour is kept as its three channels <<r, g, b>>, 0..255.  With
\* chroma D = max - min, every hue colorsys computes is a multiple of
\* 30/D degrees, so an HSL value is kept as
\*   hue   in units of 30/den degrees (den = D, or 1 for a grey): 360
\*         degrees are 12 * den units, 30 degrees are den units;
\*   s, l  as fractions num/den of 1.
\* The floating-point rounding of the code is not modelled, except where
\* int(round(x)) meets an exact half (see HslToHex).

Max3(c) == CHOOSE x \in {c[1], c[2], c[3]} : \A y \in {c[1], c[2], c[3]} : y <= x

Min3(c) == CHOOSE x \in {c[1], c[2], c[3]} : \A y \in {c[1], c[2], c[3]} : x <= y

\* hex_to_hsl: colorsys.rgb_to_hls on the channels / 255, hue * 360
HexToHsl(c) ==
    LET hi  == Max3(c)
        lo  == Min3(c)
        D   == hi - lo
        sum == hi + lo
        hue == IF D = 0 THEN 0
               ELSE IF c[1] = hi THEN (2 * (c[2] - c[3])) % (12 * D)
               ELSE IF c[2] = hi THEN (4 * D + 2 * (c[3] - c[1])) % (12 * D)
               ELSE (8 * D + 2 * (c[1] - c[2])) % (12 * D)
    IN  [hue |-> hue,
         den |-> IF D = 0 THEN 1 ELSE D,
         s   |-> IF D = 0 THEN [num |-> 0, den |-> 1]
                 ELSE [num |-> D, den |-> IF sum <= 255 THEN sum ELSE 510 - sum],
         l   |-> [num |-> sum, den |-> 510]]

\* hsl_to_hex: the hue is wrapped again (line 88), colorsys.hls_to_rgb
\* gives the channels, and int(round(x * 255)) makes them integers.  A
\* channel that falls on an exact half goes up or down with the rounding
\* error of the float arithmetic: both outcomes are kept.
HslToHex(hue, den, s, l) ==
    LET u    == hue % (12 * den)
        D    == s.num
        hi   == (l.num + D) \div 2
        lo   == l.num - hi
        \* colorsys._v, doubled
        V2(x) == LET t == x % (12 * den)
                 IN  IF t < 2 * den THEN 2 * lo + (D * t) \div den
                     ELSE IF t < 6 * den THEN 2 * hi
                     ELSE IF t < 8 * den THEN 2 * lo + (D * (8 * den - t)) \div den
                     ELSE 2 * lo
        Round(v2) == IF v2 % 2 = 0 THEN {v2 \div 2} ELSE {v2 \div 2, v2 \div 2 + 1}
    IN  IF D = 0
        THEN {<<lo, lo, lo>>}
        ELSE { <<r, g, b>> : r \in Round(V2(u + 4 * den)),
                             g \in Round(V2(u)),
                             b \in Round(V2(u + 8 * den)) }

\* complementary without the wrap: h + 180
ComplementaryHueUnwrapped(hsl) == hsl.hue + 6 * hsl.den

\* complementary: (h + 180) % 360
ComplementaryHue(hsl) == (hsl.hue + 6 * hsl.den) % (12 * hsl.den)

\* analogous with the wrap applied before the rotation
AnalogousHuesWrapFirst(hsl) ==
    << (hsl.hue % (12 * hsl.den)) - hsl.den, (hsl.hue % (12 * hsl.den)) + hsl.den >>

\* analogous: (h - 30) % 360 and (h + 30) % 360
AnalogousHues(hsl) ==
    << (hsl.hue - hsl.den) % (12 * hsl.den), (hsl.hue + hsl.den) % (12 * hsl.den) >>

\* triadic: (h + 120) % 360 and (h + 240) % 360
TriadicHues(hsl) ==
    << (hsl.hue + 4 * hsl.den) % (12 * hsl.den), (hsl.hue + 8 * hsl.den) % (12 * hsl.den) >>

\* seeds: greys, primaries, a seed of hue 30 degrees (231, 131, 31), odd
\* and even chroma
SeedChannels == {0, 31, 131, 231, 255}

Seeds == { <<r, g, b>> : r \in SeedChannels, g \in SeedChannels, b \in SeedChannels }

\* the lists of HEX colours hsl_to_hex can return for one or two hues
Rendered(hues, hsl) ==
    IF Len(hues) = 1
    THEN { <<c>> : c \in HslToHex(hues[1], hsl.den, hsl.s, hsl.l) }
    ELSE { <<c, d>> : c \in HslToHex(hues[1], hsl.den, hsl.s, hsl.l),
                      d \in HslToHex(hues[2], hsl.den, hsl.s, hsl.l) }

\* a ColourWheel method called on a seed: the hues it computes and the
\* HEX colours it returns for them
CallWheel(method, Hues(_)) ==
    /\ fn = ""
    /\ \E seed \in Seeds :
        LET hsl  == HexToHsl(seed)
            hues == Hues(hsl)
        IN  /\ args' = [seed |-> seed]
            /\ \E colours \in Rendered(hues, hsl) :
                /\ result' = [hues |-> hues, colours |-> colours]
    /\ fn' = method
    /\ UNCHANGED <<engineVars, guiVars>>

CallComplementary == CallWheel("complementary", LAMBDA hsl : <<ComplementaryHue(hsl)>>)

CallAnalogous == CallWheel("analogous", AnalogousHues)

CallTriadic == CallWheel("triadic", TriadicHues)

\* COLOR_DB: the names whose family is "neutral"
NeutralFamily == {"Black", "White", "Ivory", "Beige", "Neutral Grey",
                  "Charcoal", "Navy Blue", "Nude"}

\* a list() that keeps repeated names
UniqueKeepsDuplicates(colors) == colors

RECURSIVE Unique(_)
\* list(dict.fromkeys(colors)): the first occurrence of each name, in order
Unique(colors) ==
    IF colors = <<>> THEN <<>>
    ELSE LET front == Unique(SubSeq(colors, 1, Len(colors) - 1))
             last  == colors[Len(colors)]
         IN  IF last \in SeqToSet(front) THEN front ELSE Append(front, last)

\* validate_rule_of_three: the dict it returns; the message is kept as the
\* values formatted into it
ValidateRuleOfThree(colors) ==
    LET unique       == Unique(colors)
        neutrals     == FilterSeq(unique, NeutralFamily)
        non_neutrals == FilterOut(unique, SeqToSet(neutrals))
    IN  IF Len(non_neutrals) <= 3
        THEN [valid   |-> TRUE,
              colors  |-> unique,
              message |-> <<"distinct colors", Len(non_neutrals)>>]
        ELSE LET keep == Take(non_neutrals, 2) \o Take(neutrals, 1)
                 drop == Drop(non_neutrals, 2)
             IN  [valid   |-> FALSE,
                  colors  |-> keep,
                  dropped |-> drop,
                  message |-> <<"colors detected", Len(non_neutrals), "Dropping", drop>>]

MaxColors == 6

\* four names outside the neutral family (one of them not in COLOR_DB at
\* all) and two inside it
ColorInputs == {"Maroon", "Teal", "Red", "Fuchsia", "Black", "Ivory"}

CallValidateRuleOfThree ==
    /\ fn = ""
    /\ \E n \in 0..MaxColors : \E colors \in [1..n -> ColorInputs] :
        /\ args' = [colors |-> colors]
        /\ result' = ValidateRuleOfThree(colors)
    /\ fn' = "validate_rule_of_three"
    /\ UNCHANGED <<engineVars, guiVars>>

\* the three undertones, one of them also capitalised, and two values
\* outside them
SkinToneInputs == {"warm", "cool", "neutral", "Cool", "Neutral", "olive", ""}

JewelryOccasionInputs == {"wedding", "diwali", "reception", "Wedding", "DIWALI",
                          "office", "festive", "date_night", ""}

CallGetJewelryMetal ==
    /\ fn = ""
    /\ \E skin_tone \in SkinToneInputs, occasion \in JewelryOccasionInputs :
        /\ args' = [skin_tone |-> skin_tone, occasion |-> occasion]
        /\ result' = GetJewelryMetal(skin_tone, occasion)
    /\ fn' = "get_jewelry_metal"
    /\ UNCHANGED <<engineVars, guiVars>>

\* COLOR_DB in the order of the dict: name, family, warmth.  No two names
\* share a hex code, so a colour stands for its hex code
COLOR_DB == <<
    <<"Emerald Green", "jewel", "cool">>,
    <<"Maroon", "jewel", "warm">>,
    <<"Royal Blue", "jewel", "cool">>,
    <<"Deep Wine", "jewel", "warm">>,
    <<"Royal Purple", "jewel", "cool">>,
    <<"Bottle Green", "jewel", "cool">>,
    <<"Ruby Red", "jewel", "warm">>,
    <<"Pastel Pink", "pastel", "warm">>,
    <<"Lavender", "pastel", "cool">>,
    <<"Mint", "pastel", "cool">>,
    <<"Peach", "pastel", "warm">>,
    <<"Coral", "pastel", "warm">>,
    <<"Cobalt Blue", "bold", "cool">>,
    <<"Electric Indigo", "bold", "cool">>,
    <<"Teal", "bold", "cool">>,
    <<"Mustard Yellow", "warm", "warm">>,
    <<"Black", "neutral", "neutral">>,
    <<"White", "neutral", "neutral">>,
    <<"Ivory", "neutral", "warm">>,
    <<"Beige", "neutral", "warm">>,
    <<"Neutral Grey", "neutral", "neutral">>,
    <<"Charcoal", "neutral", "cool">>,
    <<"Navy Blue", "neutral", "cool">>,
    <<"Gold", "metallic", "warm">>,
    <<"Rose Gold", "metallic", "warm">>,
    <<"Silver", "metallic", "cool">>,
    <<"Red", "bold", "warm">>,
    <<"Magenta", "bold", "warm">>,
    <<"Olive Green", "earth", "warm">>,
    <<"Tan", "earth", "warm">>,
    <<"Brown", "earth", "warm">>,
    <<"Nude", "neutral", "warm">>,
    <<"Indigo", "bold", "cool">> >>

\* COMPLEMENTARY_PAIRINGS.get(color_name, ["Gold", "Ivory"])
ComplementaryPairings(name) ==
    CASE name = "Maroon" -> <<"Gold", "Ivory", "Beige", "Emerald Green">>
      [] name = "Emerald Green" -> <<"Gold", "Maroon", "Ivory", "Ruby Red">>
      [] name = "Cobalt Blue" -> <<"Gold", "Ivory", "Beige", "Silver">>
      [] name = "Royal Purple" -> <<"Gold", "Ivory", "Silver", "Mint">>
      [] name = "Navy Blue" -> <<"Gold", "Ivory", "Rose Gold", "White">>
      [] name = "Teal" -> <<"Mustard Yellow", "Gold", "Coral", "Ivory">>
      [] name = "Mustard Yellow" -> <<"Teal", "Navy Blue", "Ivory", "White">>
      [] name = "Black" -> <<"Gold", "Silver", "Red", "White">>
      [] name = "White" -> <<"Gold", "Navy Blue", "Cobalt Blue", "Black">>
      [] name = "Ivory" -> <<"Gold", "Maroon", "Emerald Green", "Navy Blue">>
      [] name = "Deep Wine" -> <<"Gold", "Ivory", "Beige", "Rose Gold">>
      [] name = "Pastel Pink" -> <<"Silver", "Ivory", "Mint", "Gold">>
      [] name = "Lavender" -> <<"Silver", "Ivory", "Gold", "Mint">>
      [] name = "Mint" -> <<"Gold", "Coral", "Ivory", "Lavender">>
      [] name = "Peach" -> <<"Gold", "Ivory", "Teal", "White">>
      [] name = "Coral" -> <<"Gold", "Teal", "Ivory", "Mint">>
      [] name = "Red" -> <<"Gold", "Ivory", "Black", "Beige">>
      [] name = "Gold" -> <<"Maroon", "Emerald Green", "Navy Blue", "Black">>
      [] name = "Electric Indigo" -> <<"Silver", "Gold", "Ivory", "White">>
      [] name = "Bottle Green" -> <<"Gold", "Ivory", "Rose Gold", "Beige">>
      [] OTHER -> <<"Gold", "Ivory">>

\* _get_color_mood
GetColorMood(family) ==
    CASE family = "pastel" -> "Pastel"
      [] family \in {"earth", "warm"} -> "Earthy"
      [] family \in {"jewel", "bold"} -> "Vibrant"
      [] OTHER -> "Neutral"

\* get_secondary_colors for a primary colour of COLOR_DB: the candidates
\* of the strategy before and after the mood mask, and the list returned
GetSecondaryColors(primary, strategy, requested_mood) ==
    LET Entry(name) == CHOOSE e \in SeqToSet(COLOR_DB) : e[1] = name
        Known(name) == \E e \in SeqToSet(COLOR_DB) : e[1] = name
        MatchesMood(name) ==
            \/ requested_mood \in {"Any", "Neutral"}
            \/ GetColorMood(Entry(name)[2]) \in {requested_mood, "Neutral"}
        warmth == Entry(primary)[3]
        family == Entry(primary)[2]
        Names(s) == [i \in 1..Len(s) |-> s[i][1]]
        SameWarmth(e) == e[3] = warmth /\ e[1] /= primary
        Akin(e) == (e[3] = warmth \/ e[2] = family) /\ e[1] /= primary
        InDb(name) == Known(name)
        unfiltered ==
            CASE strategy = "monochromatic" -> Names(SelectSeq(COLOR_DB, SameWarmth))
              [] strategy = "complementary" -> SelectSeq(ComplementaryPairings(primary), InDb)
              [] OTHER -> Names(SelectSeq(COLOR_DB, Akin))
        masked  == SelectSeq(unfiltered, MatchesMood)
        matches == IF masked = <<>> /\ strategy /= "monochromatic" THEN unfiltered ELSE masked
    IN  [unfiltered |-> unfiltered,
         masked     |-> masked,
         colors     |-> IF Len(matches) >= 2 THEN Take(matches, 2) ELSE <<"Gold", "Ivory">>]

MoodInputs == {"Any", "Neutral", "Vibrant", "Pastel", "Earthy", "Moody"}

CallGetSecondaryColors ==
    /\ fn = ""
    /\ \E i \in 1..Len(COLOR_DB),
          strategy \in {"complementary", "analogous", "monochromatic"},
          mood \in MoodInputs :
        /\ args' = [primary |-> COLOR_DB[i][1], strategy |-> strategy, requested_mood |-> mood]
        /\ result' = GetSecondaryColors(COLOR_DB[i][1], strategy, mood)
    /\ fn' = "get_secondary_colors"
    /\ UNCHANGED <<engineVars, guiVars>>

\* ------------------------------------------------------------------------
\* workflow/langgraph_state.py: the five agent nodes and the merge node
\* ------------------------------------------------------------------------
\* the agents by the names their nodes log them under
GraphAgents == {"TrendScout", "PersonaAgent", "ColourEngine", "WardrobeArchitect",
                "JewelleryAgent"}

\* run_pipeline, lines 396-406: the state the first node is given; visited
\* records the nodes entered, in order
InitialState ==
    [trend_brief |-> "{}", user_persona |-> "{}", colour_palettes |-> <<>>,
     outfit_options |-> <<>>, jewellery_kits |-> <<>>, final_recommendations |-> <<>>,
     error_log |-> <<>>, visited |-> <<>>]

\* the try/except of a node: the agent's value under its key, or, when the
\* agent raises, one error_log entry and the fallback value
TryAgent(st, node, agent, raising, key, value, fallback) ==
    LET entered == [st EXCEPT !.visited = Append(@, node)]
    IN  IF agent \in raising
        THEN [entered EXCEPT !.error_log = Append(@, agent), ![key] = fallback]
        ELSE [entered EXCEPT ![key] = value]

NodeTrendScout(st, raising) ==
    TryAgent(st, "scout", "TrendScout", raising, "trend_brief", "trend data", "{}")

NodePersona(st, raising) ==
    TryAgent(st, "persona", "PersonaAgent", raising, "user_persona", "persona data",
             "safe defaults")

NodeColour(st, raising) ==
    TryAgent(st, "colour", "ColourEngine", raising, "colour_palettes",
             <<"palette 1", "palette 2", "palette 3">>,
             <<"Analogous", "Triadic", "Split Complementary">>)

\* node_wardrobe with an except clause that logs nothing
NodeWardrobeUnlogged(st, raising) ==
    LET entered == [st EXCEPT !.visited = Append(@, "wardrobe")]
    IN  IF "WardrobeArchitect" \in raising
        THEN [entered EXCEPT !.outfit_options = <<>>]
        ELSE [entered EXCEPT !.outfit_options = <<"outfit 1", "outfit 2", "outfit 3">>]

NodeWardrobe(st, raising) ==
    TryAgent(st, "wardrobe", "WardrobeArchitect", raising, "outfit_options",
             <<"outfit 1", "outfit 2", "outfit 3">>, <<>>)

\* a kit for each outfit the jewellery agent is given
NodeJewellery(st, raising) ==
    TryAgent(st, "jewellery", "JewelleryAgent", raising, "jewellery_kits",
             [i \in 1..Len(st.outfit_options) |-> "kit"], <<>>)

\* node_merge_results: zip(outfits, kits), or the outfits alone when there
\* is no kit
NodeMergeResults(st) ==
    LET outfits == st.outfit_options
        kits    == st.jewellery_kits
        n       == IF Len(outfits) < Len(kits) THEN Len(outfits) ELSE Len(kits)
        zipped  == [i \in 1..n |-> [outfit |-> outfits[i], jewellery_kit |-> kits[i]]]
        alone   == [i \in 1..Len(outfits) |-> [outfit |-> outfits[i], jewellery_kit |-> "{}"]]
    IN  [st EXCEPT !.visited = Append(@, "merge"),
                   !.final_recommendations =
                        IF kits = <<>> /\ outfits /= <<>> THEN zipped \o alone ELSE zipped]

\* run_pipeline, lines 409-424: the edges of the graph, which are also the
\* order of the direct calls
RunGraph(raising) ==
    NodeMergeResults(
        NodeJewellery(
            NodeWardrobe(
                NodeColour(
                    NodePersona(
                        NodeTrendScout(InitialState, raising), raising), raising), raising),
            raising))

CallRunPipeline ==
    /\ fn = ""
    /\ \E raising \in SUBSET GraphAgents :
        /\ args' = [raising |-> raising]
        /\ result' = RunGraph(raising)
    /\ fn' = "run_pipeline"
    /\ UNCHANGED <<engineVars, guiVars>>

\* ------------------------------------------------------------------------
\* Refinement after refinement on one state
\* ------------------------------------------------------------------------
MaxRefinements == 3

\* a text for each action, two of them for the colour change
RefineTexts ==
    { Join(<<f>>) : f \in {FragMeh, FragTooHeavy, FragMuted, FragCheaper, FragBolder,
                            FragTraditional, FragFusion} } \cup
    { Join(<<FragMakeIt, FragRed>>), Join(<<FragMakeIt, FragTeal>>) }

RECURSIVE ProcessAll(_, _)
\* FeedbackHandler.process called with each text in turn on the state the
\* call before returned
ProcessAll(texts, st) ==
    IF texts = <<>> THEN st
    ELSE ProcessAll(Tail(texts), Process(Head(texts), st))

CallProcess ==
    /\ fn = ""
    /\ \E trend \in TrendInputs, n \in 0..MaxRefinements :
        \E texts \in [1..n -> RefineTexts] :
            /\ args' = [trend_brief |-> trend, texts |-> texts]
            /\ result' = ProcessAll(texts, StyleState(trend, NoProfile, "wedding", "female",
                                                      1000, "Any"))
    /\ fn' = "process"
    /\ UNCHANGED <<engineVars, guiVars>>

\* no session: the functions keep no state, so a behaviour is one call
\* with arguments of the caller's
InitLib ==
    /\ catalog = {}
    /\ vibe_column = FALSE
    /\ state = FreshStyleState
    /\ pc = "lib"
    /\ call = "none"
    /\ NoCallYet
    /\ GuiIdle
    /\ NoFunctionCalled

NextLib ==
    \/ CallTrendScore
    \/ CallComplementary
    \/ CallAnalogous
    \/ CallTriadic
    \/ CallValidateRuleOfThree
    \/ CallGetJewelryMetal
    \/ CallGetSecondaryColors
    \/ CallRunPipeline
    \/ CallProcess

SpecLib == InitLib /\ [][NextLib]_vars

\* ------------------------------------------------------------------------
\* Properties
\* ------------------------------------------------------------------------
SkusOf(items) == {items[i].sku : i \in 1..Len(items)}

SlotPcs == {"main", "comp", "layer", "jewelry", "footwear", "accessory"}

\* rows a slot query would return if price were no object
Candidates(categories) ==
    BaseRows(categories, state.occasion, state.gender, DefaultBudget + 1,
             state.rejected_skus, "Any")

\* C1: during and after a refinement (process, then curate) no item
\* selected for any slot carries a SKU that was on the blacklist before
\* the call.
C1_RejectedExcluded ==
    call = "process_feedback" =>
        /\ SkusOf(outfit_items) \cap SeqToSet(state_before.rejected_skus) = {}
        /\ SkusOf(state.final_recommendation.outfit_items)
              \cap SeqToSet(state_before.rejected_skus) = {}
        /\ main_piece.found => main_piece.row.sku \notin SeqToSet(state_before.rejected_skus)

\* a refined bundle holds an item of a slot for which a dearer, otherwise
\* eligible row was on the blacklist before the call
C1_Witness ==
    /\ call = "process_feedback"
    /\ pc = "done"
    /\ \E i \in 1..Len(state.final_recommendation.outfit_items), r \in catalog :
        /\ r.sku \in SeqToSet(state_before.rejected_skus)
        /\ r.category = state.final_recommendation.outfit_items[i].category
        /\ r.price > state.final_recommendation.outfit_items[i].price
        /\ r.price <= budget

\* a slot step leaves the remaining budget no larger than before and not
\* negative, and what is spent plus what remains is the budget
SlotStepKeepsBudget ==
    pc \in SlotPcs =>
        /\ remaining' <= remaining
        /\ remaining' >= 0
        /\ SumPrices(outfit_items') + remaining' = budget

\* C2: within one curate run every slot step leaves the remaining budget
\* no larger than before and never negative, and what has been spent
\* plus what remains is the budget (nothing is overspent).
C2_BudgetMonotone == [][SlotStepKeepsBudget]_vars

\* a run that filled an earlier slot and left jewellery unfilled although
\* the catalogue has eligible jewellery, all of it above the remaining budget
C2_Witness ==
    /\ pc = "done"
    /\ remaining < budget
    /\ Candidates({"Jewelry"}) /= {}
    /\ \A r \in Candidates({"Jewelry"}) : r.price > remaining
    /\ \A i \in 1..Len(outfit_items) : outfit_items[i].category /= "Jewelry"

UnrecognisedText == Join(<<FragMeh>>)

\* C3 as claimed: every refine call with the unrecognised text strictly
\* increases the iteration and strictly grows the blacklist.
C3_StrictGrowth ==
    (call = "process_feedback" /\ feedback_text = UnrecognisedText) =>
        /\ state.iteration > state_before.iteration
        /\ SeqToSet(state_before.rejected_skus) \subseteq SeqToSet(state.rejected_skus)
        /\ SeqToSet(state_before.rejected_skus) /= SeqToSet(state.rejected_skus)

\* C3 as amended: every refine call with the unrecognised text increases
\* the iteration by one and extends the blacklist by exactly the SKUs of
\* the recommendation's items that were not yet on it; the blacklist
\* never shrinks, and grows strictly exactly when there is such an item.
C3_Amended ==
    (call = "process_feedback" /\ feedback_text = UnrecognisedText) =>
        LET before == state_before.rejected_skus
            after  == state.rejected_skus
            shown  == IF state_before.final_recommendation.present
                      THEN SkusOf(state_before.final_recommendation.outfit_items)
                      ELSE {}
        IN  /\ state.iteration = state_before.iteration + 1
            /\ Len(after) >= Len(before)
            /\ SubSeq(after, 1, Len(before)) = before
            /\ SeqToSet(after) = SeqToSet(before) \cup shown
            /\ (Len(after) > Len(before)) <=> (shown \ SeqToSet(before) /= {})

\* the second of two refine calls with the same unrecognised text, on a
\* state that held a non-empty recommendation
C3_Witness ==
    /\ call = "process_feedback"
    /\ feedback_text = UnrecognisedText
    /\ state_before.iteration >= 1
    /\ state_before.feedback_history = <<UnrecognisedText>>
    /\ state_before.final_recommendation.present
    /\ state_before.final_recommendation.outfit_items /= <<>>
    /\ Len(state.rejected_skus) > Len(state_before.rejected_skus)

\* C4 as claimed: curate and refine never raise, and a finished call
\* leaves a recommendation with confidence >= 0.
C4_Total ==
    /\ raised = ""
    /\ pc = "done" =>
        /\ state.final_recommendation.present
        /\ state.final_recommendation.confidence_score >= 0

\* the main-garment rows that pass category, occasion, gender, price
\* ceiling, stock and blacklist (the colour-unconstrained tier)
EligibleMain ==
    BaseRows({"Top", "Full", "Bottom"}, state.occasion, state.gender, budget,
             state.rejected_skus, state.preferred_clothing_type)

OnlyAtTierThree ==
    /\ Cardinality(EligibleMain) = 1
    /\ \A r \in EligibleMain :
        /\ r.color_family \notin SeqToSet(trending_colors)
        /\ r.color_family \in SeqToSet(user_colors)

MainAtAnyPrice == Candidates({"Top", "Full", "Bottom"})

\* C6 as claimed: when the budget is below the price of every eligible
\* main garment, the finished run has no main piece, a status other than
\* the fully-available one, and every later slot attempted and unfilled.
C6_BudgetExhaustion ==
    (pc = "done" /\ MainAtAnyPrice /= {} /\ \A r \in MainAtAnyPrice : r.price > budget) =>
        /\ ~main_piece.found
        /\ state.final_recommendation.inventory_availability_status /= "available"
        /\ {"layer", "jewelry", "footwear", "accessory"} \subseteq SeqToSet(attempted)
        /\ state.final_recommendation.outfit_items = <<>>

\* C7 as claimed: an exception raised by a slot's catalogue query never
\* leaves curate.
C7_QueryFailureIsolated == raised /= "OperationalError"

\* no keyword of any pattern occurs in the text
NoKeyword(feedback_lower) ==
    \A i \in 1..Len(FEEDBACK_PATTERNS) :
        \A k \in 1..Len(FEEDBACK_PATTERNS[i].keywords) :
            ~Contains(feedback_lower, FEEDBACK_PATTERNS[i].keywords[k])

ClosedActionSet ==
    {"swap_to_lighter_fabric", "shift_to_neutral_palette", "reduce_budget",
     "shift_to_bold_palette", "change_primary_color", "shift_to_traditional",
     "shift_to_modern", "full_re_curate"}

\* C9: every processed text is given one action of the closed set, and a
\* text in which no keyword occurs is given full_re_curate, whose
\* mutation (and no other) is applied.
C9_Classification ==
    pc = "processed" =>
        /\ action \in ClosedActionSet
        /\ NoKeyword(Strip(Lower(feedback_text))) =>
            /\ action = "full_re_curate"
            /\ state.trend_brief = FullReCurate(state_before).trend_brief
            /\ state.budget = state_before.budget

\* a text of two fragments in which no keyword occurs, rotated as
\* full_re_curate rotates
C9_Witness ==
    /\ pc = "processed"
    /\ Len(feedback_text) > 5
    /\ NoKeyword(Strip(Lower(feedback_text)))
    /\ action = "full_re_curate"
    /\ state.trend_brief.trending_colors /= state_before.trend_brief.trending_colors

\* C10 as claimed: a set-colour feedback that names no colour of the
\* vocabulary mutates the state as full_re_curate does.
C10_ColourFallback ==
    (pc = "processed" /\ action = "change_primary_color"
        /\ ExtractColor(Strip(Lower(feedback_text))) = "") =>
        state.trend_brief = FullReCurate(state_before).trend_brief

\* the StyleState objects some other running thread holds or is about to
\* be handed: the argument of its call in progress
HeldByOther(w) == {workers[v].ref : v \in InEngine \ {w}}

\* C8: in the GUI host, no two curate/refine calls of different worker
\* threads are in progress on the same StyleState object at the same time.
C8_StateIsolation ==
    \A w \in InEngine : workers[w].ref \notin HeldByOther(w)

\* ------------------------------------------------------------------------
\* Scores of a finished curate
\* ------------------------------------------------------------------------
\* the catalogue row an item was built from
RowOf(item) == CHOOSE r \in catalog : r.sku = item.sku

\* the items of a bundle whose row carries the requested vibe
VibeMatched(items) ==
    { i \in 1..Len(items) :
        state.preferred_vibe /= "Any" /\ RowOf(items[i]).vibe = state.preferred_vibe }

\* C11: after every curate the confidence (in hundredths of a percent,
\* rounded down) is matched-vibe slots / filled slots x 100, lies in
\* [0, 100], and is 0 when no slot is filled.
C11_Confidence ==
    pc = "done" =>
        LET rec     == state.final_recommendation
            conf    == rec.confidence_score
            filled  == Len(rec.outfit_items)
            matched == Cardinality(VibeMatched(rec.outfit_items))
        IN  /\ conf \in 0..10000
            /\ filled = 0 => conf = 0
            /\ filled > 0 =>
                /\ conf * filled <= matched * 10000
                /\ matched * 10000 < (conf + 1) * filled

\* a finished bundle in which some, but not all, items matched the vibe
C11_Witness ==
    /\ pc = "done"
    /\ state.preferred_vibe = "Modern"
    /\ Cardinality(VibeMatched(state.final_recommendation.outfit_items)) > 0
    /\ Cardinality(VibeMatched(state.final_recommendation.outfit_items))
          < Len(state.final_recommendation.outfit_items)
    /\ state.final_recommendation.confidence_score \notin {0, 10000}

\* the smaller of two numbers
Min(a, b) == IF a < b THEN a ELSE b

\* C12 as claimed: for every bundle and every trend brief the trend
\* alignment score (in tenths) is 50 + min(15 x distinct item colours that
\* are trend colours, 30) + min(10 x distinct item fabrics that are trend
\* fabrics, 20), and lies in [10, 100].
C12_TrendScore ==
    fn = "_calculate_trend_score" =>
        LET colours == {args.items[i].color : i \in 1..Len(args.items)}
            fabrics == {args.items[i].fabric : i \in 1..Len(args.items)}
            trend_c == SeqToSet(args.trending_colors)
            trend_f == IF args.trend_brief.present
                       THEN SeqToSet(args.trend_brief.key_fabrics) ELSE {}
        IN  /\ result = 50 + Min(15 * Cardinality(colours \cap trend_c), 30)
                           + Min(10 * Cardinality(fabrics \cap trend_f), 20)
            /\ result \in 10..100

\* hue x is hue y turned by `turn` units, on a wheel of 12 * den units
TurnedBy(x, y, turn, den) ==
    /\ x \in 0..(12 * den - 1)
    /\ \E k \in {-1, 0, 1} : x = y + turn + k * 12 * den

\* C13: for every seed, the hue complementary computes is (h + 180) mod
\* 360 and lies in [0, 360); the colour it returns has the seed's
\* saturation and lightness and, for a seed that is not a grey, that hue.
C13_HueWrap ==
    fn = "complementary" =>
        LET seed == HexToHsl(args.seed)
            out  == HexToHsl(result.colours[1])
        IN  /\ TurnedBy(result.hues[1], seed.hue, 6 * seed.den, seed.den)
            /\ out.s = seed.s
            /\ out.l = seed.l
            /\ seed.s.num > 0 => (out.den = seed.den /\ out.hue = result.hues[1])

\* a seed of hue >= 180 degrees, whose complement wraps past 360
C13_Witness ==
    /\ fn = "complementary"
    /\ HexToHsl(args.seed).s.num > 0
    /\ HexToHsl(args.seed).hue >= 6 * HexToHsl(args.seed).den
    /\ result.hues[1] = HexToHsl(args.seed).hue - 6 * HexToHsl(args.seed).den
    /\ result.colours[1] /= args.seed

NonNeutralsOf(colors) == FilterOut(Unique(colors), NeutralFamily)

NeutralsOf(colors) == FilterSeq(Unique(colors), NeutralFamily)

Compliant(colors) == Len(NonNeutralsOf(colors)) <= 3

\* the dropped list a result reports: none when the dict has no such key
Reported(res) == IF "dropped" \in DOMAIN res THEN res.dropped ELSE <<>>

\* C15 as stated: a list with at most three non-neutral colours comes back
\* unchanged, with nothing reported as dropped
C15_Unchanged ==
    (fn = "validate_rule_of_three" /\ Compliant(args.colors))
        => /\ result.colors = args.colors
           /\ Reported(result) = <<>>

\* C15, amended: a list with at most three non-neutral colours comes back
\* with its repeated names removed and nothing else changed: every name of
\* the input once, in the order of first occurrence; the result is valid and
\* carries no dropped list. A list without repeats comes back unchanged.
C15_Amended ==
    (fn = "validate_rule_of_three" /\ Compliant(args.colors))
        => LET inp == args.colors
               out == result.colors
               First(x) == CHOOSE i \in 1..Len(inp) :
                               inp[i] = x /\ \A j \in 1..(i - 1) : inp[j] /= x
           IN  /\ result.valid
               /\ "dropped" \notin DOMAIN result
               /\ SeqToSet(out) = SeqToSet(inp)
               /\ \A i, j \in 1..Len(out) : i < j => First(out[i]) < First(out[j])
               /\ (Cardinality(SeqToSet(inp)) = Len(inp)) => out = inp

C15_Witness ==
    /\ fn = "validate_rule_of_three"
    /\ args.colors = <<"Maroon", "Black", "Maroon", "Teal", "Red">>
    /\ result.colors = <<"Maroon", "Black", "Teal", "Red">>

\* C16: the kept list holds every neutral colour of the input, its
\* non-neutral colours are the first three non-neutral colours of the
\* input in order, and what is dropped is the non-neutral colours after
\* the third
C16_Retention ==
    fn = "validate_rule_of_three"
        => /\ SeqToSet(NeutralsOf(args.colors)) \subseteq SeqToSet(result.colors)
           /\ FilterOut(result.colors, NeutralFamily) = Take(NonNeutralsOf(args.colors), 3)
           /\ Reported(result) = Drop(NonNeutralsOf(args.colors), 3)

\* C17: given more than three non-neutral colours, every colour of the
\* input that is not kept is reported as dropped, and a message comes with
\* the report
C17_NoSilentTruncation ==
    (fn = "validate_rule_of_three" /\ ~Compliant(args.colors))
        => /\ SeqToSet(args.colors) \ SeqToSet(result.colors) \subseteq SeqToSet(Reported(result))
           /\ "message" \in DOMAIN result

\* ------------------------------------------------------------------------
\* The jewellery metal
\* ------------------------------------------------------------------------
\* wedding, diwali, reception, in any letter case
HighCeremony(occasion) == LowerName(occasion) \in {"wedding", "diwali", "reception"}

\* C18: for the undertones warm, cool and neutral and every occasion, the
\* metal is Gold for warm, Silver for cool and Rose Gold for neutral, except
\* that on a high-ceremony occasion it is Gold unless the undertone is cool,
\* and then it is Silver
C18_JewelryMetal ==
    (fn = "get_jewelry_metal" /\ args.skin_tone \in {"warm", "cool", "neutral"})
        => IF HighCeremony(args.occasion)
           THEN result = (IF args.skin_tone = "cool" THEN "Silver" ELSE "Gold")
           ELSE result = (CASE args.skin_tone = "warm"    -> "Gold"
                            [] args.skin_tone = "cool"    -> "Silver"
                            [] args.skin_tone = "neutral" -> "Rose Gold")

C18_Witness ==
    /\ fn = "get_jewelry_metal"
    /\ args.skin_tone = "neutral"
    /\ HighCeremony(args.occasion)
    /\ result = "Gold"

\* ------------------------------------------------------------------------
\* Refinement
\* ------------------------------------------------------------------------
\* the SKUs of the bundle that was current when the feedback arrived
Replaced ==
    IF state_before.final_recommendation.present
    THEN SkusOf(state_before.final_recommendation.outfit_items)
    ELSE {}

\* C19: once process has returned, and so before the first slot query of
\* the curate that follows, the SKU of every item of the replaced bundle is
\* on the blacklist, whatever the action was; no item selected by that
\* curate, and no item of the bundle it ends with, is one of them
C19_BlacklistBeforeRematch ==
    (call = "process_feedback" \/ pc = "processed") =>
        /\ Replaced \subseteq SeqToSet(state.rejected_skus)
        /\ SkusOf(outfit_items) \cap Replaced = {}
        /\ main_piece.found => main_piece.row.sku \notin Replaced
        /\ SkusOf(state.final_recommendation.outfit_items) \cap Replaced = {}

\* a refined bundle whose slot held, in the bundle it replaces, another
\* item that is still in stock and within the budget
C19_Witness ==
    /\ call = "process_feedback"
    /\ pc = "done"
    /\ \E i \in 1..Len(state.final_recommendation.outfit_items), r \in catalog :
        /\ r.sku \in Replaced
        /\ r.category = state.final_recommendation.outfit_items[i].category
        /\ r.price > state.final_recommendation.outfit_items[i].price
        /\ r.price <= budget

\* ------------------------------------------------------------------------
\* Slot order
\* ------------------------------------------------------------------------
\* the slots a curate call has to attempt, in order; the complementary
\* piece goes with a main piece that is a top or a bottom
SlotsDue ==
    IF main_piece.found /\ main_piece.row.category /= "Full"
    THEN <<"main", "complementary", "layer", "jewelry", "footwear", "accessory">>
    ELSE <<"main", "layer", "jewelry", "footwear", "accessory">>

\* the slots are attempted in the fixed order and the ceiling a slot is
\* queried with is the budget less the prices of the items selected so far
OrderAndCeilingSoFar ==
    call /= "none" =>
        /\ \E n \in 0..Len(SlotsDue) : attempted = Take(SlotsDue, n)
        /\ remaining = budget - SumPrices(outfit_items)

\* C20: a curate call attempts main garment, complementary piece, layer,
\* jewelry, footwear and accessory in this order, each with a ceiling of
\* the budget less the prices of the items selected for the slots before
\* it; a call whose catalogue queries all succeed leaves none of them out
C20_SlotOrder ==
    /\ OrderAndCeilingSoFar
    /\ (call /= "none" /\ pc \in {"done", "raised"} /\ raised /= "OperationalError")
            => attempted = SlotsDue

\* ------------------------------------------------------------------------
\* Relaxation tiers of the main garment
\* ------------------------------------------------------------------------
\* the candidates of tier n: 1 target colour and preferred vibe, 2 target
\* colour, 3 target or user-history colour, 4 any colour
TierRows(n) ==
    LET target == SeqToSet(trending_colors)
        user   == SeqToSet(user_colors)
    IN  CASE n = 1 -> { r \in EligibleMain : /\ r.color_family \in target
                                             /\ state.preferred_vibe \in {"Any", r.vibe} }
          [] n = 2 -> { r \in EligibleMain : r.color_family \in target }
          [] n = 3 -> { r \in EligibleMain : r.color_family \in target \cup user }
          [] n = 4 -> EligibleMain

\* C21: the main garment returned is a candidate of the strictest tier
\* that has a candidate, and none is returned only when tier 4 has none
C21_RelaxationOrder ==
    pc = "comp" =>
        IF main_piece.found
        THEN \E n \in 1..4 :
                /\ main_piece.row \in TierRows(n)
                /\ \A m \in 1..(n - 1) : TierRows(m) = {}
        ELSE TierRows(4) = {}

\* the garment comes from tier 1 although a dearer garment is eligible in
\* a looser tier only
C21_Witness ==
    /\ pc = "comp"
    /\ main_piece.found
    /\ state.preferred_vibe /= "Any"
    /\ main_piece.row \in TierRows(1)
    /\ \E r \in TierRows(4) \ TierRows(1) : r.price > main_piece.row.price

\* ------------------------------------------------------------------------
\* Refinement lifecycle
\* ------------------------------------------------------------------------
Curated(st) == st.current_step = "complete" /\ st.final_recommendation.present

\* C22: a call that has ended leaves the state Curated (current_step
\* 'complete', final_recommendation set), and the state a process_feedback
\* call found, from which reset_for_refinement entered Refining, was Curated
C22_Lifecycle ==
    /\ (call /= "none" /\ pc \in {"done", "raised"}) => Curated(state)
    /\ call = "process_feedback" => Curated(state_before)

\* ------------------------------------------------------------------------
\* The mood mask
\* ------------------------------------------------------------------------
\* C23: when the mood mask leaves no candidate of the strategy, the colours
\* returned are candidates of the strategy before the mask
C23_MoodFallback ==
    (fn = "get_secondary_colors" /\ result.masked = <<>>)
        => /\ result.colors /= <<>>
           /\ SeqToSet(result.colors) \subseteq SeqToSet(result.unfiltered)

\* the mood mask leaves at least two candidates, whatever the primary
\* colour, the strategy and the mood
MaskLeavesTwo ==
    fn = "get_secondary_colors"
        => /\ Len(result.masked) >= 2
           /\ result.colors = Take(result.masked, 2)

\* ------------------------------------------------------------------------
\* Set-colour
\* ------------------------------------------------------------------------
\* a processed set-colour feedback that names a colour of the vocabulary,
\* on a state with a trend brief
SetColourDone ==
    /\ pc = "processed"
    /\ action = "change_primary_color"
    /\ ExtractColor(Strip(Lower(feedback_text))) /= ""
    /\ state_before.trend_brief.present

\* s is t with its elements in another order
IsReordering(s, t) ==
    /\ Len(s) = Len(t)
    /\ \A x \in SeqToSet(s) \cup SeqToSet(t) :
        Cardinality({i \in 1..Len(s) : s[i] = x}) = Cardinality({i \in 1..Len(t) : t[i] = x})

\* C24 as stated: the new list is c, then the previous colours other than
\* c in their previous order, a reordering of the previous list
C24_Reordering ==
    SetColourDone =>
        LET c   == ExtractColor(Strip(Lower(feedback_text)))
            old == state_before.trend_brief.trending_colors
            new == state.trend_brief.trending_colors
        IN  /\ new = <<c>> \o FilterOut(old, {c})
            /\ IsReordering(new, old)

\* C24, amended: the new list is c, then the first four of the previous
\* colours other than c in their previous order; it is a reordering of the
\* previous list when c was in it and at most four other colours were,
\* and otherwise holds c in addition or lacks the colours after the fourth
C24_Amended ==
    SetColourDone =>
        LET c      == ExtractColor(Strip(Lower(feedback_text)))
            old    == state_before.trend_brief.trending_colors
            new    == state.trend_brief.trending_colors
            others == FilterOut(old, {c})
        IN  /\ new /= <<>> /\ Head(new) = c
            /\ Len(new) = 1 + (IF Len(others) < 4 THEN Len(others) ELSE 4)
            /\ \A i \in 2..Len(new) : new[i] = others[i - 1]
            /\ (c \in SeqToSet(old) /\ Len(others) <= 4) => IsReordering(new, old)
            /\ (c \notin SeqToSet(old) \/ Len(others) > 4) => ~IsReordering(new, old)

\* teal asked for on a brief of five other colours: the fifth is gone
C24_Witness ==
    /\ SetColourDone
    /\ Len(state_before.trend_brief.trending_colors) = 5
    /\ state.trend_brief.trending_colors =
          <<"Teal">> \o Take(state_before.trend_brief.trending_colors, 4)

\* ------------------------------------------------------------------------
\* Rule of three in curate
\* ------------------------------------------------------------------------
\* the colours of the items of the recommendation, in slot order
BundleColors ==
    [i \in 1..Len(state.final_recommendation.outfit_items) |->
        state.final_recommendation.outfit_items[i].color]

\* C25: when the colours of the finished bundle exceed the limit of three
\* non-neutral colours, the recommendation carries the validation (the
\* violation and the reduced colour set), and its items are the items
\* selected
C25_RuleOfThreeReported ==
    (pc = "done" /\ ~ValidateRuleOfThree(BundleColors).valid) =>
        /\ "color_validation" \in DOMAIN state.final_recommendation
        /\ state.final_recommendation.outfit_items = outfit_items

\* ------------------------------------------------------------------------
\* The agent graph
\* ------------------------------------------------------------------------
\* C26: whichever agents raise, the nodes run in the order scout, persona,
\* colour, wardrobe, jewellery, merge, the error log of the state returned
\* has exactly one entry for each agent that raised and none for the
\* others, and the merge node has set final_recommendations
C26_FaultTolerance ==
    fn = "run_pipeline" =>
        /\ result.visited = <<"scout", "persona", "colour", "wardrobe", "jewellery", "merge">>
        /\ \A a \in GraphAgents :
              Cardinality({i \in 1..Len(result.error_log) : result.error_log[i] = a})
                  = (IF a \in args.raising THEN 1 ELSE 0)
        /\ Len(result.error_log) = Cardinality(args.raising)
        /\ Len(result.final_recommendations) = Len(result.outfit_options)

\* the wardrobe agent raised, the jewellery agent after it did not
C26_Witness ==
    /\ fn = "run_pipeline"
    /\ args.raising = {"TrendScout", "WardrobeArchitect"}
    /\ result.error_log = <<"TrendScout", "WardrobeArchitect">>
    /\ result.final_recommendations = <<>>

\* ------------------------------------------------------------------------
\* Spend against the stated budget
\* ------------------------------------------------------------------------
\* C27: when a curate has finished, the prices of the items it selected sum
\* to at most state.budget, whatever that budget is, 0 included
C27_SpendWithinStatedBudget ==
    pc = "done" => SumPrices(outfit_items) <= state.budget

\* ------------------------------------------------------------------------
\* The caps of the trend brief
\* ------------------------------------------------------------------------
\* at most 5 colours without duplicates, 4 fabrics, 3 silhouettes
WithinCaps(brief) ==
    /\ Len(brief.trending_colors) <= 5
    /\ Cardinality(SeqToSet(brief.trending_colors)) = Len(brief.trending_colors)
    /\ Len(brief.key_fabrics) <= 4
    /\ Len(brief.must_have_silhouette) <= 3

\* C28: a trend brief within the caps is within the caps after any
\* sequence of feedback texts has been processed
C28_CapsPreserved ==
    (fn = "process" /\ WithinCaps(args.trend_brief)) => WithinCaps(result.trend_brief)

\* three refinements on a full brief, the last asking for a colour the
\* brief did not have: five colours, the new one first
C28_Witness ==
    /\ fn = "process"
    /\ Len(args.texts) = MaxRefinements
    /\ Len(args.trend_brief.trending_colors) = 5
    /\ "Teal" \notin SeqToSet(args.trend_brief.trending_colors)
    /\ args.texts[MaxRefinements] = Join(<<FragMakeIt, FragTeal>>)
    /\ args.texts[1] = Join(<<FragTooHeavy>>)
    /\ Len(result.trend_brief.trending_colors) = 5
    /\ Head(result.trend_brief.trending_colors) = "Teal"
    /\ Len(result.trend_brief.key_fabrics) = 4

\* ------------------------------------------------------------------------
\* What curate writes
\* ------------------------------------------------------------------------
\* the fields of the state curate assigns
CurateWrites == {"current_step", "final_recommendation", "inventory_match"}

CurateInFlight == pc \in SlotPcs \cup {"wrapup"}

CurateStepKeepsFrame ==
    CurateInFlight =>
        /\ \A field \in DOMAIN state \ CurateWrites : state'[field] = state[field]
        /\ catalog' = catalog

\* C29: every step of a curate run leaves the catalog and every field of
\* the state other than current_step, final_recommendation and
\* inventory_match as they are, trend_brief, user_style_profile, budget,
\* rejected_skus, feedback_history and iteration among them; and from its
\* first statement on, the state of a curate differs from the state it was
\* called on in those three fields only
C29_CurateFrame ==
    /\ [][CurateStepKeepsFrame]_vars
    /\ [](call \in {"run_pipeline", "curate"} =>
            \A field \in DOMAIN state \ CurateWrites : state[field] = state_before[field])

\* a curate on a state with a blacklist has finished with a recommendation
C29_Witness ==
    /\ pc = "done"
    /\ call = "curate"
    /\ state.rejected_skus = <<"SKU-FUL-1", "SKU-JEW-2">>
    /\ state.current_step = "complete"
    /\ state.inventory_match /= <<>>
    /\ state.final_recommendation.outfit_items = outfit_items
    /\ state.budget = 0

\* ------------------------------------------------------------------------
\* The blacklist over a session
\* ------------------------------------------------------------------------
\* a step inside a session: neither the call that opens it on a new state
\* nor the new orchestrator that ends it
SessionStepKeepsBlacklist ==
    (call /= "none" /\ call' /= "none") =>
        SeqToSet(state.rejected_skus) \subseteq SeqToSet(state'.rejected_skus)

\* C30: within a session no curate step and no refinement takes a SKU off
\* state.rejected_skus, and the list never holds a SKU twice
C30_BlacklistMonotone ==
    /\ [][SessionStepKeepsBlacklist]_vars
    /\ [](Cardinality(SeqToSet(state.rejected_skus)) = Len(state.rejected_skus))

\* the second refinement of a session that began with a blacklist of two
\* has put further SKUs on it
C30_Witness ==
    /\ call = "process_feedback"
    /\ state.iteration = 2
    /\ Len(state.rejected_skus) > Len(state_before.rejected_skus)
    /\ Len(state_before.rejected_skus) > 2
    /\ SubSeq(state.rejected_skus, 1, 2) = <<"SKU-FUL-1", "SKU-JEW-2">>

====
